---------------------------- MODULE Spec2Model ----------------------------
(***************************************************************************)
(* A model of the msgstore maildir storage engine                          *)
(* (src/maildir/store.go, third revision, lines 953-1936):                 *)
(* path resolution, delivery through tmp/ and new/, listing, retrieval,    *)
(* soft deletion and expunge, and the Maildir++ folder operations.         *)
(*                                                                         *)
(* Strings are tuples of one-character strings, so that prefix tests,      *)
(* splitting and path normalisation work on characters as the Go code      *)
(* does.                                                                   *)
(***************************************************************************)
EXTENDS Naturals, Sequences, FiniteSets, TLC

VARIABLES
    cfg,        \* the store configuration: pathTemplate and maildirSubdir
    maildirs,   \* paths that hold an initialised maildir (tmp/, new/, cur/)
    files,      \* message files: [dir, sub, key, flags, data]
    deleted,    \* per instance: the soft-deletion table, a set of <<key, uid>>
    nextKey,    \* the next unique file name a delivery gets
    procs,      \* per process slot: the multi-step operation in flight
    pin,        \* path resolution: the input of the call
    pout        \* path resolution: the result of the call

vars == <<cfg, maildirs, files, deleted, nextKey, procs, pin, pout>>

-----------------------------------------------------------------------------
(* Strings *)

HasPrefix(s, p) == Len(s) >= Len(p) /\ SubSeq(s, 1, Len(p)) = p

\* strings.LastIndex with 1-based positions; 0 when c does not occur.
LastIndex(s, c) ==
    IF \E i \in 1..Len(s) : s[i] = c
    THEN CHOOSE i \in 1..Len(s) : s[i] = c /\ \A j \in (i+1)..Len(s) : s[j] # c
    ELSE 0

\* The first position of c in s; 0 when c does not occur.
Index(s, c) ==
    IF \E i \in 1..Len(s) : s[i] = c
    THEN CHOOSE i \in 1..Len(s) : s[i] = c /\ \A j \in 1..(i-1) : s[j] # c
    ELSE 0

RECURSIVE ReplaceAll(_, _, _)
\* strings.ReplaceAll for a non-empty old: non-overlapping, left to right.
ReplaceAll(s, old, new) ==
    IF Len(s) < Len(old) THEN s
    ELSE IF SubSeq(s, 1, Len(old)) = old
         THEN new \o ReplaceAll(SubSeq(s, Len(old) + 1, Len(s)), old, new)
         ELSE <<s[1]>> \o ReplaceAll(Tail(s), old, new)

RECURSIVE SplitSlash(_)
SplitSlash(s) ==
    IF Index(s, "/") = 0 THEN <<s>>
    ELSE <<SubSeq(s, 1, Index(s, "/") - 1)>>
            \o SplitSlash(SubSeq(s, Index(s, "/") + 1, Len(s)))

RECURSIVE JoinSlash(_)
JoinSlash(segs) ==
    IF segs = <<>> THEN <<>>
    ELSE IF Len(segs) = 1 THEN segs[1]
    ELSE segs[1] \o <<"/">> \o JoinSlash(Tail(segs))

DotDot == <<".", ".">>

RECURSIVE CleanStack(_, _, _)
\* The element loop of filepath.Clean: drop empty and "." elements, let ".."
\* remove the element before it, drop ".." at the root, keep leading ".."
\* of a relative path.
CleanStack(segs, stack, rooted) ==
    IF segs = <<>> THEN stack
    ELSE LET h == Head(segs)
             t == Tail(segs)
         IN  IF h = <<>> \/ h = <<".">> THEN CleanStack(t, stack, rooted)
             ELSE IF h = DotDot
                  THEN IF stack # <<>> /\ stack[Len(stack)] # DotDot
                       THEN CleanStack(t, SubSeq(stack, 1, Len(stack) - 1), rooted)
                       ELSE IF rooted THEN CleanStack(t, stack, rooted)
                            ELSE CleanStack(t, Append(stack, h), rooted)
                  ELSE CleanStack(t, Append(stack, h), rooted)

IsRooted(p) == Len(p) > 0 /\ p[1] = "/"

\* The end of filepath.Clean: the root is put back, an empty result is ".".
CleanResult(rooted, body) ==
    IF rooted THEN <<"/">> \o body
    ELSE IF body = <<>> THEN <<".">> ELSE body

\* filepath.Clean
Clean(p) ==
    CleanResult(IsRooted(p),
                JoinSlash(CleanStack(SplitSlash(p), <<>>, IsRooted(p))))

NonEmpty(e) == e # <<>>

\* filepath.Join of the elements that are not empty.
JoinNonEmpty(ne) == IF ne = <<>> THEN <<>> ELSE Clean(JoinSlash(ne))

\* filepath.Join: empty elements are ignored, the result is cleaned.
Join(elems) == JoinNonEmpty(SelectSeq(elems, NonEmpty))

-----------------------------------------------------------------------------
(* Errors (src/errors/errors.go) *)

Nil == "nil"
ErrPathTraversal == "ErrPathTraversal"
ErrNoRecipients == "ErrNoRecipients"
ErrMailboxNotFound == "ErrMailboxNotFound"
ErrMessageDeleted == "ErrMessageDeleted"
ErrMessageNotFound == "ErrMessageNotFound"
ErrInvalidFolderName == "ErrInvalidFolderName"
ErrFolderExists == "ErrFolderExists"
ErrFolderNotFound == "ErrFolderNotFound"
\* An error of the operating system (a failed write, a failed link).
ErrIO == "ErrIO"


-----------------------------------------------------------------------------
(* Identifiers the operations are called with *)

BasePath == <<"/", "b">>

IdA       == <<"a">>
IdADom    == <<"a", "@", "d">>
IdAExt    == <<"a", "+", "f", "@", "d">>
IdABadExt == <<"a", "+", ".", ".", "/", "e", "@", "d">>
IdC       == <<"c", "@", "d">>
IdTrav    == <<".", ".", "/", "x">>
IdTrav2   == <<"a", "/", ".", ".", "/", ".", ".", "/", "x">>
IdInner   == <<"a", "/", ".", ".", "/", "c">>
IdAbs     == <<"/", "x">>
IdEmpty   == <<>>
IdDot     == <<".">>
IdSibling == <<".", ".", "/", "b", "x">>
\* An address whose domain part goes on with the directory name of folder f.
IdAlias   == <<"a", "@", "d", "/", ".", "f">>

FolderF     == <<"f">>
FolderG     == <<"g">>
FolderDots  == <<".", ".">>
FolderSlash == <<".", ".", "/", "e">>
FolderHid   == <<".", "f">>
FolderNEW   == <<"N", "e", "w">>
FolderInbox == <<"I", "N", "B", "O", "X">>

TplNone      == <<>>
TplLocalpart == <<"{", "l", "o", "c", "a", "l", "p", "a", "r", "t", "}">>
TplEmail     == <<"{", "e", "m", "a", "i", "l", "}">>
TplDomain    == <<"{", "d", "o", "m", "a", "i", "n", "}">>
TplDomLocal  == TplDomain \o <<"/">> \o TplLocalpart

SubdirNone    == <<>>
SubdirMaildir == <<"M">>

\* Every mailbox identifier and folder name any operation is called with.
AllIds == {IdA, IdADom, IdAExt, IdABadExt, IdC, IdTrav, IdTrav2, IdInner,
           IdAbs, IdEmpty, IdDot, IdSibling, IdAlias}
AllFolders == {FolderF, FolderG, FolderDots, FolderSlash, FolderHid,
               FolderNEW, FolderInbox, <<>>}
AllConfigs == [template : {TplNone, TplLocalpart, TplEmail, TplDomLocal},
               subdir : {SubdirNone, SubdirMaildir}]

-----------------------------------------------------------------------------
(* Path resolution *)

splitEmail(email) ==
    LET idx == LastIndex(email, "@")
    IN  IF idx > 0
        THEN [localpart |-> SubSeq(email, 1, idx - 1),
              domain |-> SubSeq(email, idx + 1, Len(email))]
        ELSE [localpart |-> email, domain |-> <<>>]

\* expandMailbox for a store configured with c.
expandMailboxOf(c, mailbox) ==
    IF c.template = <<>> THEN mailbox
    ELSE LET parts == splitEmail(mailbox)
             r1 == ReplaceAll(c.template, TplDomain, parts.domain)
             r2 == ReplaceAll(r1, TplLocalpart, parts.localpart)
         IN  ReplaceAll(r2, TplEmail, mailbox)

\* A containment test by plain string prefix.
UnderBaseNaive(cleanCandidate, cleanBase) ==
    HasPrefix(cleanCandidate, cleanBase)

\* The containment test of mailboxPath and folderPath: candidate is base or
\* lies under it, compared with a separator appended to both.
UnderBase(cleanCandidate, cleanBase) ==
    HasPrefix(cleanCandidate \o <<"/">>, cleanBase \o <<"/">>)

\* The end of mailboxPath and folderPath: the traversal error, or the
\* cleaned candidate.
Contained(cleanCandidate, cleanBase) ==
    IF ~UnderBase(cleanCandidate, cleanBase)
    THEN [err |-> ErrPathTraversal, path |-> <<>>]
    ELSE [err |-> Nil, path |-> cleanCandidate]

\* mailboxPath's candidate: base, expanded mailbox and, if configured, the
\* maildir subdirectory.
MailboxCandidate(c, expandedMailbox) ==
    IF c.subdir # <<>>
    THEN Join(<<BasePath, expandedMailbox, c.subdir>>)
    ELSE Join(<<BasePath, expandedMailbox>>)

\* mailboxPath for a store configured with c.
mailboxPathOf(c, mailbox) ==
    Contained(Clean(MailboxCandidate(c, expandMailboxOf(c, mailbox))),
              Clean(BasePath))

UpperCase == <<"A", "B", "C", "D", "E", "F", "G", "H", "I", "J", "K", "L", "M",
               "N", "O", "P", "Q", "R", "S", "T", "U", "V", "W", "X", "Y", "Z">>
LowerCase == <<"a", "b", "c", "d", "e", "f", "g", "h", "i", "j", "k", "l", "m",
               "n", "o", "p", "q", "r", "s", "t", "u", "v", "w", "x", "y", "z">>
Digits == {"0", "1", "2", "3", "4", "5", "6", "7", "8", "9"}

ToLowerChar(ch) ==
    IF \E i \in 1..Len(UpperCase) : UpperCase[i] = ch
    THEN LowerCase[CHOOSE i \in 1..Len(UpperCase) : UpperCase[i] = ch]
    ELSE ch

ToLower(s) == [i \in 1..Len(s) |-> ToLowerChar(s[i])]

EqualFold(s, t) == ToLower(s) = ToLower(t)

isValidFolderChar(r) ==
    \/ \E i \in 1..Len(LowerCase) : LowerCase[i] = r
    \/ \E i \in 1..Len(UpperCase) : UpperCase[i] = r
    \/ r \in Digits
    \/ r = "-"
    \/ r = "_"

MaxFolderNameLen == 255

ReservedNames == {<<"n", "e", "w">>, <<"c", "u", "r">>, <<"t", "m", "p">>}

\* Characters outside ASCII, two bytes each in the string ("U+00E9" stands
\* for the letter e with an acute accent).
TwoByteChars == {"U+00E9"}

\* len(folder): the bytes of the string.
ByteLen(folder) ==
    Len(folder) + Cardinality({i \in 1..Len(folder) : folder[i] \in TwoByteChars})

\* validateFolderName comparing the reserved names as they are written.
validateFolderNameExactCase(folder) ==
    IF folder = <<>> THEN ErrInvalidFolderName
    ELSE IF ByteLen(folder) > MaxFolderNameLen THEN ErrInvalidFolderName
    ELSE IF HasPrefix(folder, <<".">>) THEN ErrInvalidFolderName
    ELSE IF folder \in ReservedNames THEN ErrInvalidFolderName
    ELSE IF \E i \in 1..Len(folder) : ~isValidFolderChar(folder[i])
         THEN ErrInvalidFolderName
    ELSE Nil

validateFolderName(folder) ==
    IF folder = <<>> THEN ErrInvalidFolderName
    ELSE IF ByteLen(folder) > MaxFolderNameLen THEN ErrInvalidFolderName
    ELSE IF HasPrefix(folder, <<".">>) THEN ErrInvalidFolderName
    ELSE IF ToLower(folder) \in ReservedNames THEN ErrInvalidFolderName
    ELSE IF \E i \in 1..Len(folder) : ~isValidFolderChar(folder[i])
         THEN ErrInvalidFolderName
    ELSE Nil

\* folderPath once the name is valid: base is what mailboxPath returned.
FolderUnder(base, folder) ==
    IF base.err # Nil THEN base
    ELSE Contained(Clean(Join(<<base.path, <<".">> \o folder>>)),
                   Clean(base.path))

\* folderPath for a store configured with c.
folderPathOf(c, mailbox, folder) ==
    IF validateFolderName(folder) # Nil
    THEN [err |-> ErrInvalidFolderName, path |-> <<>>]
    ELSE FolderUnder(mailboxPathOf(c, mailbox), folder)

\* The two resolutions, computed once for every configuration and identifier.
MailboxPathTable ==
    [c \in AllConfigs |-> [m \in AllIds |-> mailboxPathOf(c, m)]]
FolderPathTable ==
    [c \in AllConfigs |->
        [m \in AllIds |-> [f \in AllFolders |-> folderPathOf(c, m, f)]]]

mailboxPath(mailbox) == MailboxPathTable[cfg][mailbox]
folderPath(mailbox, folder) == FolderPathTable[cfg][mailbox][folder]

\* folderOrInboxPath: the folder name INBOX, in any case, is the mailbox.
folderOrInboxPath(mailbox, folder) ==
    IF EqualFold(folder, FolderInbox) THEN mailboxPath(mailbox)
    ELSE folderPath(mailbox, folder)

\* folderDeletionKey: mailbox, a NUL byte, folder.
folderDeletionKey(mailbox, folder) == mailbox \o <<"NUL">> \o folder

\* ParseRecipient: the extension is what follows the first '+' of the local
\* part; the address is the rest with the domain.
ParseRecipient(email) ==
    LET idx == LastIndex(email, "@")
        localpart == IF idx > 0 THEN SubSeq(email, 1, idx - 1) ELSE email
        domain == IF idx > 0 THEN SubSeq(email, idx, Len(email)) ELSE <<>>
        plus == Index(localpart, "+")
        base == IF plus > 0 THEN SubSeq(localpart, 1, plus - 1) ELSE localpart
        ext == IF plus > 0 THEN SubSeq(localpart, plus + 1, Len(localpart))
               ELSE <<>>
    IN  [Address |-> base \o domain, Extension |-> ext]


-----------------------------------------------------------------------------
(* Bounds and inputs of the store model *)

\* How many file names deliveries may draw in one run.
MaxKeys == 2
\* How many soft-deletion marks the instances may hold at a time.
MaxMarks == 2

Instances == {1, 2}
\* Goroutines: one runs the deliveries, two run the expunges.
DeliverProcs == {1}
ExpungeProcs == {2, 3}
Procs == DeliverProcs \cup ExpungeProcs
Keys == 1..MaxKeys

\* Message bodies, as byte sequences.
MsgOne == <<1, 2>>
MsgTwo == <<3>>
Msgs == {MsgOne, MsgTwo}

\* The configurations a run starts with: a bare store, and the production
\* set-up of the round-trip tests ({localpart} with a Maildir subdirectory).
Configs == {[template |-> TplNone, subdir |-> SubdirNone],
            [template |-> TplLocalpart, subdir |-> SubdirMaildir]}

\* Mailbox identifiers List, Stat and Retrieve are called with.
ReaderIds == {IdADom, IdTrav}
\* Mailbox identifiers the other operations are called with.
OwnerIds == {IdADom}
\* Folder names the folder operations are called with.
FolderArgs == {FolderF, FolderDots}
\* Recipient lists of the deliveries that run against the expunges.
ExpungeEnvelopes == {<<IdADom>>, <<IdAExt>>, <<IdADom, IdC>>}
\* Recipient lists of the envelopes handed to Deliver.
Envelopes == {<<>>, <<IdADom>>, <<IdAExt>>, <<IdABadExt>>, <<IdTrav, IdADom>>,
              <<IdAlias>>}

IdleProc == [pc |-> "idle", op |-> "none", inst |-> 0, rcpts |-> <<>>,
             data |-> <<>>, off |-> 0, dir |-> <<>>, key |-> 0,
             delivered |-> 0, lastErr |-> Nil, mb |-> <<>>, folder |-> <<>>,
             dkey |-> <<>>, taken |-> {}, ret |-> Nil, flags |-> <<>>,
             uid |-> 0, dest |-> <<>>, arg |-> 0]


-----------------------------------------------------------------------------
(* The file system and the library's maildir operations *)

\* os.Stat(path/cur) succeeds.
HasMaildir(md, path) == path \in md

\* The message files of one subdirectory of a maildir.
InSub(fs, path, sub) == {f \in fs : f.dir = path /\ f.sub = sub}

\* A message file that readers can reach: in new/ or in cur/.
Visible(fs) == {f \in fs : f.sub \in {"new", "cur"}}

\* Dir.Unseen leaving new/ as it is.
UnseenNothing(fs, path) == fs

\* Dir.Unseen: every file of new/ is renamed into cur/ with an empty flag set.
Unseen(fs, path) ==
    {IF f.dir = path /\ f.sub = "new" THEN [f EXCEPT !.sub = "cur"] ELSE f
        : f \in fs}

\* Dir.MessageByKey: the file of cur/ whose key is uid, if there is one.
MessageByKey(fs, path, uid) == {f \in InSub(fs, path, "cur") : f.key = uid}

RECURSIVE SumSizes(_)
SumSizes(ms) ==
    IF ms = {} THEN 0
    ELSE LET m == CHOOSE x \in ms : TRUE
         IN  m.Size + SumSizes(ms \ {m})

\* A tracker that hides nothing.
isDeletedNever(i, key, uid) == FALSE

\* A tracker shared by the instances: a mark of any of them hides the uid.
isDeletedAnywhere(i, key, uid) ==
    \E j \in Instances : <<key, uid>> \in deleted[j]

isDeleted(i, key, uid) == <<key, uid>> \in deleted[i]

\* ensureMaildir creating nothing.
ensureMaildirNoCreate(md, mailbox) ==
    [err |-> mailboxPath(mailbox).err, path |-> mailboxPath(mailbox).path,
     maildirs |-> md]

\* ensureMaildir: the mailbox's maildir, created when cur/ is missing.
ensureMaildir(md, mailbox) ==
    LET mp == mailboxPath(mailbox)
    IN  IF mp.err # Nil THEN [err |-> mp.err, path |-> <<>>, maildirs |-> md]
        ELSE [err |-> Nil, path |-> mp.path, maildirs |-> md \cup {mp.path}]

\* The IMAP flags and the maildir flag each is stored as.
FlagPairs == {<<"\\Seen", "S">>, <<"\\Answered", "R">>, <<"\\Flagged", "F">>,
              <<"\\Draft", "D">>, <<"\\Deleted", "T">>}

\* convertFlags: the IMAP flags of a message's maildir flags.
convertFlags(flags) == {q[1] : q \in {r \in FlagPairs : r[2] \in flags}}

\* convertFlagsFromIMAP: the maildir flags of the IMAP flags it knows; the
\* others are ignored.  infoFromFlags sorts them into the file name, so the
\* result is taken as a set.
convertFlagsFromIMAP(flags) ==
    {q[2] : q \in {r \in FlagPairs : \E k \in 1..Len(flags) : flags[k] = r[1]}}

\* listDir reporting every message it finds as Recent.
listDirAllRecent(i, fs, path, deletionKey) ==
    [files |-> Unseen(fs, path),
     msgs |-> {[UID |-> f.key, Size |-> Len(f.data), Recent |-> TRUE,
                Flags |-> convertFlags(f.flags)]
                 : f \in {g \in InSub(Unseen(fs, path), path, "cur") :
                             ~isDeleted(i, deletionKey, g.key)}}]

\* listDir: drain new/ into cur/, then report every message of cur/ that is
\* not soft-deleted under deletionKey; those just drained are Recent.
listDir(i, fs, path, deletionKey) ==
    LET recentKeys == {f.key : f \in InSub(fs, path, "new")}
        after == Unseen(fs, path)
        allMsgs == InSub(after, path, "cur")
    IN  [files |-> after,
         msgs |-> {[UID |-> f.key, Size |-> Len(f.data),
                    Recent |-> f.key \in recentKeys,
                    Flags |-> convertFlags(f.flags)]
                     : f \in {g \in allMsgs : ~isDeleted(i, deletionKey, g.key)}}]

\* retrieveFromDir
retrieveFromDir(fs, path, uid) ==
    LET found == MessageByKey(fs, path, uid)
    IN  IF found = {} THEN [err |-> "KeyError", data |-> <<>>]
        ELSE [err |-> Nil, data |-> (CHOOSE f \in found : TRUE).data]

\* removeMessages emptying cur/ whatever uids holds.
removeEverything(fs, path, uids) == fs \ InSub(fs, path, "cur")

\* removeMessages: every uid found in cur/ is removed, the others skipped.
removeMessages(fs, path, uids) ==
    fs \ {f \in InSub(fs, path, "cur") : f.key \in uids}


-----------------------------------------------------------------------------
(* The handlers of MaildirStore, each as the outcome of one call in the      *)
(* current state: its result and the files, maildirs and deletion table it  *)
(* leaves.                                                                   *)

\* List: resolve the path, create the maildir if missing, list it.
List(i, mailbox) ==
    LET mp == mailboxPath(mailbox)
        em == ensureMaildir(maildirs, mailbox)
        ld == listDir(i, files, mp.path, mailbox)
    IN  IF mp.err # Nil
        THEN [res |-> [err |-> mp.err, msgs |-> {}],
              files |-> files, maildirs |-> maildirs]
        ELSE [res |-> [err |-> Nil, msgs |-> ld.msgs],
              files |-> ld.files, maildirs |-> em.maildirs]

\* Stat and StatFolder after the listing: count and sum what it reported.
CountAndSum(listed) ==
    [err |-> listed.err, count |-> Cardinality(listed.msgs),
     totalBytes |-> SumSizes(listed.msgs)]

\* Stat: List, then count and sum.
Stat(i, mailbox) == [List(i, mailbox) EXCEPT !.res = CountAndSum(@)]

\* Retrieve: refused for a soft-deleted uid, then path, cur/ and the message.
Retrieve(i, mailbox, uid) ==
    LET mp == mailboxPath(mailbox)
    IN  IF isDeleted(i, mailbox, uid)
        THEN [err |-> ErrMessageDeleted, data |-> <<>>]
        ELSE IF mp.err # Nil THEN [err |-> mp.err, data |-> <<>>]
        ELSE IF ~HasMaildir(maildirs, mp.path)
             THEN [err |-> ErrMailboxNotFound, data |-> <<>>]
        ELSE retrieveFromDir(files, mp.path, uid)

\* Delete: record the uid under the mailbox identifier, in memory only.
Delete(i, mailbox, uid) ==
    [res |-> [err |-> Nil], deleted |-> deleted[i] \cup {<<mailbox, uid>>}]

\* CreateFolder
CreateFolder(mailbox, folder) ==
    LET fp == folderPath(mailbox, folder)
        em == ensureMaildir(maildirs, mailbox)
    IN  IF fp.err # Nil THEN [res |-> [err |-> fp.err], maildirs |-> maildirs]
        ELSE IF HasMaildir(maildirs, fp.path)
             THEN [res |-> [err |-> ErrFolderExists], maildirs |-> maildirs]
        ELSE IF em.err # Nil
             THEN [res |-> [err |-> em.err], maildirs |-> maildirs]
        ELSE [res |-> [err |-> Nil], maildirs |-> em.maildirs \cup {fp.path}]

\* DeleteFolder: forget the folder's soft-deletions, remove its directory
\* with everything in it.
DeleteFolder(i, mailbox, folder) ==
    LET fp == folderPath(mailbox, folder)
        key == folderDeletionKey(mailbox, folder)
        same == [res |-> [err |-> Nil], files |-> files, maildirs |-> maildirs,
                 deleted |-> deleted[i]]
    IN  IF fp.err # Nil THEN [same EXCEPT !.res = [err |-> fp.err]]
        ELSE IF ~HasMaildir(maildirs, fp.path)
             THEN [same EXCEPT !.res = [err |-> ErrFolderNotFound]]
        ELSE [res |-> [err |-> Nil],
              files |-> {f \in files : f.dir # fp.path},
              maildirs |-> maildirs \ {fp.path},
              deleted |-> {d \in deleted[i] : d[1] # key}]

\* ListInFolder: no creation; a missing folder is an error.
ListInFolder(i, mailbox, folder) ==
    LET fp == folderPath(mailbox, folder)
        ld == listDir(i, files, fp.path, folderDeletionKey(mailbox, folder))
    IN  IF fp.err # Nil
        THEN [res |-> [err |-> fp.err, msgs |-> {}], files |-> files]
        ELSE IF ~HasMaildir(maildirs, fp.path)
             THEN [res |-> [err |-> ErrFolderNotFound, msgs |-> {}],
                   files |-> files]
        ELSE [res |-> [err |-> Nil, msgs |-> ld.msgs], files |-> ld.files]

\* StatFolder
StatFolder(i, mailbox, folder) ==
    [ListInFolder(i, mailbox, folder) EXCEPT !.res = CountAndSum(@)]

\* RetrieveFromFolder
RetrieveFromFolder(i, mailbox, folder, uid) ==
    LET fp == folderPath(mailbox, folder)
    IN  IF isDeleted(i, folderDeletionKey(mailbox, folder), uid)
        THEN [err |-> ErrMessageDeleted, data |-> <<>>]
        ELSE IF fp.err # Nil THEN [err |-> fp.err, data |-> <<>>]
        ELSE IF ~HasMaildir(maildirs, fp.path)
             THEN [err |-> ErrFolderNotFound, data |-> <<>>]
        ELSE retrieveFromDir(files, fp.path, uid)

\* DeleteInFolder: the folder name is validated, nothing else is looked at.
DeleteInFolder(i, mailbox, folder, uid) ==
    IF validateFolderName(folder) # Nil
    THEN [res |-> [err |-> ErrInvalidFolderName], deleted |-> deleted[i]]
    ELSE [res |-> [err |-> Nil],
          deleted |-> deleted[i]
                        \cup {<<folderDeletionKey(mailbox, folder), uid>>}]

\* RenameFolder clearing the old name's soft-deletions before it looks at
\* the two folders.
RenameFolderClearingFirst(i, mailbox, oldName, newName) ==
    LET oldP == folderPath(mailbox, oldName)
        newP == folderPath(mailbox, newName)
        cleared == {d \in deleted[i] :
                       d[1] # folderDeletionKey(mailbox, oldName)}
        same == [res |-> [err |-> Nil], files |-> files, maildirs |-> maildirs,
                 deleted |-> cleared]
    IN  IF oldP.err # Nil THEN [same EXCEPT !.res = [err |-> oldP.err]]
        ELSE IF newP.err # Nil THEN [same EXCEPT !.res = [err |-> newP.err]]
        ELSE IF ~HasMaildir(maildirs, oldP.path)
             THEN [same EXCEPT !.res = [err |-> ErrFolderNotFound]]
        ELSE IF HasMaildir(maildirs, newP.path)
             THEN [same EXCEPT !.res = [err |-> ErrFolderExists]]
        ELSE [res |-> [err |-> Nil],
              files |-> {IF f.dir = oldP.path THEN [f EXCEPT !.dir = newP.path]
                         ELSE f : f \in files},
              maildirs |-> (maildirs \ {oldP.path}) \cup {newP.path},
              deleted |-> cleared]

\* RenameFolder: both names resolved, the source there, the destination not;
\* the soft-deletions under the old name are forgotten, the directory renamed.
RenameFolder(i, mailbox, oldName, newName) ==
    LET oldP == folderPath(mailbox, oldName)
        newP == folderPath(mailbox, newName)
        same == [res |-> [err |-> Nil], files |-> files, maildirs |-> maildirs,
                 deleted |-> deleted[i]]
    IN  IF oldP.err # Nil THEN [same EXCEPT !.res = [err |-> oldP.err]]
        ELSE IF newP.err # Nil THEN [same EXCEPT !.res = [err |-> newP.err]]
        ELSE IF ~HasMaildir(maildirs, oldP.path)
             THEN [same EXCEPT !.res = [err |-> ErrFolderNotFound]]
        ELSE IF HasMaildir(maildirs, newP.path)
             THEN [same EXCEPT !.res = [err |-> ErrFolderExists]]
        ELSE [res |-> [err |-> Nil],
              files |-> {IF f.dir = oldP.path THEN [f EXCEPT !.dir = newP.path]
                         ELSE f : f \in files},
              maildirs |-> (maildirs \ {oldP.path}) \cup {newP.path},
              deleted |-> {d \in deleted[i] :
                              d[1] # folderDeletionKey(mailbox, oldName)}]

\* Reading the entry of key and leaving it in the table.
takeAndKeep(table, key) ==
    [taken |-> {d[2] : d \in {e \in table : e[1] = key}},
     deleted |-> table]

\* The locked section deleting one uid of the entry instead of the entry.
takeAndClearOne(table, key) ==
    [taken |-> {d[2] : d \in {e \in table : e[1] = key}},
     deleted |-> IF {e \in table : e[1] = key} = {} THEN table
                 ELSE table \ {CHOOSE e \in table : e[1] = key}]

\* The locked section of Expunge and ExpungeFolder: read the entry of key
\* and delete it from the table.
takeAndClear(table, key) ==
    [taken |-> {d[2] : d \in {e \in table : e[1] = key}},
     deleted |-> {d \in table : d[1] # key}]

\* The rest of Expunge (folder = <<>>) and ExpungeFolder once the set taken
\* is not empty: path, cur/, removeMessages.
expungeRest(op, mailbox, folder, uids) ==
    LET pp == IF op = "Expunge" THEN mailboxPath(mailbox)
              ELSE folderPath(mailbox, folder)
    IN  IF pp.err # Nil THEN [res |-> [err |-> pp.err], files |-> files]
        ELSE IF ~HasMaildir(maildirs, pp.path)
             THEN [res |-> [err |-> IF op = "Expunge" THEN ErrMailboxNotFound
                                    ELSE ErrFolderNotFound],
                   files |-> files]
        ELSE [res |-> [err |-> Nil],
              files |-> removeMessages(files, pp.path, uids)]

\* Expunge with nothing in between: the set taken, and nothing more when it
\* is empty.
Expunge(i, mailbox) ==
    LET t == takeAndClear(deleted[i], mailbox)
    IN  IF t.taken = {}
        THEN [res |-> [err |-> Nil], files |-> files, deleted |-> t.deleted]
        ELSE [deleted |-> t.deleted] @@
             expungeRest("Expunge", mailbox, <<>>, t.taken)

\* ExpungeFolder with nothing in between: the set taken, and nothing more
\* when it is empty.
ExpungeFolder(i, mailbox, folder) ==
    LET t == takeAndClear(deleted[i], folderDeletionKey(mailbox, folder))
    IN  IF t.taken = {}
        THEN [res |-> [err |-> Nil], files |-> files, deleted |-> t.deleted]
        ELSE [deleted |-> t.deleted] @@
             expungeRest("ExpungeFolder", mailbox, folder, t.taken)

\* folderIfExists without the look at cur/.
folderAnyway(md, mailbox, folder) ==
    [ok |-> folderPath(mailbox, folder).err = Nil,
     path |-> folderPath(mailbox, folder).path]

\* folderIfExists: the folder's maildir if the name is valid and cur/ exists.
folderIfExists(md, mailbox, folder) ==
    LET fp == folderPath(mailbox, folder)
    IN  IF fp.err # Nil THEN [ok |-> FALSE, path |-> <<>>]
        ELSE IF ~HasMaildir(md, fp.path) THEN [ok |-> FALSE, path |-> <<>>]
        ELSE [ok |-> TRUE, path |-> fp.path]

\* The folder a recipient's +extension names, if there is one to look for.
extensionFolder(md, parsed) ==
    IF parsed.Extension # <<>>
    THEN folderIfExists(md, parsed.Address, parsed.Extension)
    ELSE [ok |-> FALSE, path |-> <<>>]

\* The directory a recipient is delivered to: the folder fe when it was
\* found, otherwise the inbox as ensureMaildir left it (em).
targetDir(md, fe, em) ==
    IF fe.ok THEN [err |-> Nil, dir |-> fe.path, maildirs |-> md]
    ELSE [err |-> em.err, dir |-> em.path, maildirs |-> em.maildirs]

\* Resolution that creates the folder a valid +extension names.
resolveParsedCreating(md, parsed) ==
    targetDir(md \cup {folderAnyway(md, parsed.Address, parsed.Extension).path},
              IF parsed.Extension # <<>>
              THEN folderAnyway(md, parsed.Address, parsed.Extension)
              ELSE [ok |-> FALSE, path |-> <<>>],
              ensureMaildir(md, parsed.Address))

\* Deliver, per recipient: the folder of the +extension if it exists,
\* otherwise the inbox, created on first delivery.
resolveParsed(md, parsed) ==
    targetDir(md, extensionFolder(md, parsed),
              ensureMaildir(md, parsed.Address))

resolveTarget(md, recipient) == resolveParsed(md, ParseRecipient(recipient))

\* NewDelivery staging the file where readers look.
NewDeliveryInNew(fs, dir, key) ==
    fs \cup {[dir |-> dir, sub |-> "new", key |-> key, flags |-> {},
              data |-> <<>>]}

\* NewDelivery giving every staged file the same name.
NewDeliveryFixedName(fs, dir, key) ==
    fs \cup {[dir |-> dir, sub |-> "tmp", key |-> 1, flags |-> {},
              data |-> <<>>]}

\* maildir.NewDelivery: an empty file of a fresh name in tmp/.
NewDelivery(fs, dir, key) ==
    fs \cup {[dir |-> dir, sub |-> "tmp", key |-> key, flags |-> {},
              data |-> <<>>]}

\* The file a delivery in flight writes to, if it is still on disk.
TmpFileOf(fs, pr) ==
    {f \in fs : f.dir = pr.dir /\ f.sub = "tmp" /\ f.key = pr.key}

\* Delivery.Write of the next byte.
DeliveryWrite(fs, pr) ==
    {IF f \in TmpFileOf(fs, pr)
     THEN [f EXCEPT !.data = SubSeq(pr.data, 1, pr.off + 1)] ELSE f : f \in fs}

\* Delivery.Close: link tmp/key to new/key and remove tmp/key; fails when
\* the staged file or the maildir is gone.
DeliveryClose(fs, md, pr) ==
    IF TmpFileOf(fs, pr) = {} \/ ~HasMaildir(md, pr.dir)
    THEN [err |-> ErrIO, files |-> fs]
    ELSE [err |-> Nil,
          files |-> {IF f \in TmpFileOf(fs, pr) THEN [f EXCEPT !.sub = "new"]
                     ELSE f : f \in fs}]

\* Delivery.Abort: remove the staged file.
DeliveryAbort(fs, pr) == fs \ TmpFileOf(fs, pr)

\* Deliver returning the last error whenever a recipient failed.
DeliverResultAnyError(pr) == pr.lastErr

\* Deliver's return value once the recipient loop has ended.
DeliverResult(pr) ==
    IF pr.delivered = 0 /\ pr.lastErr # Nil THEN pr.lastErr ELSE Nil

RECURSIVE deliverLoop(_, _)
RECURSIVE deliverStep(_, _, _)

\* One recipient delivered with nothing in between: staged in tmp/, written
\* in full, linked into new/.
deliverOne(st, rt, staged) ==
    [maildirs |-> rt.maildirs,
     files |-> DeliveryClose(
                   DeliveryWrite(NewDelivery(st.files, rt.dir, st.nextKey),
                                 staged),
                   rt.maildirs, staged).files,
     nextKey |-> st.nextKey + 1]

\* The body of the loop returning after the first recipient it stored.
deliverStepOnce(st, pr, rt) ==
    IF rt.err # Nil
    THEN deliverLoop(st, [pr EXCEPT !.lastErr = rt.err,
                                    !.rcpts = Tail(pr.rcpts)])
    ELSE deliverLoop(deliverOne(st, rt,
                                [pr EXCEPT !.dir = rt.dir, !.key = st.nextKey,
                                           !.off = Len(pr.data) - 1]),
                     [pr EXCEPT !.delivered = pr.delivered + 1,
                                !.rcpts = <<>>])

\* Deliver's recipient loop run to its end with nothing in between: st is
\* the disk and the next file name, pr the call's progress.
deliverLoop(st, pr) ==
    IF pr.rcpts = <<>>
    THEN [err |-> DeliverResult(pr), maildirs |-> st.maildirs,
          files |-> st.files, nextKey |-> st.nextKey]
    ELSE deliverStep(st, pr, resolveTarget(st.maildirs, Head(pr.rcpts)))

\* The body of the loop for the recipient resolved to rt.
deliverStep(st, pr, rt) ==
    IF rt.err # Nil
    THEN deliverLoop(st, [pr EXCEPT !.lastErr = rt.err,
                                    !.rcpts = Tail(pr.rcpts)])
    ELSE deliverLoop(deliverOne(st, rt,
                                [pr EXCEPT !.dir = rt.dir, !.key = st.nextKey,
                                           !.off = Len(pr.data) - 1]),
                     [pr EXCEPT !.delivered = pr.delivered + 1,
                                !.rcpts = Tail(pr.rcpts)])

\* Deliver on the disk st, with nothing in between.
DeliverFrom(st, recipients, data) ==
    IF recipients = <<>>
    THEN [err |-> ErrNoRecipients, maildirs |-> st.maildirs,
          files |-> st.files, nextKey |-> st.nextKey]
    ELSE deliverLoop(st, [IdleProc EXCEPT !.rcpts = recipients, !.data = data])

\* ensureFolderMaildir: the parent mailbox first, created if missing, then
\* the folder's path, then the folder, created if missing.
ensureFolderMaildir(md, mailbox, folder) ==
    LET em == ensureMaildir(md, mailbox)
        fp == folderPath(mailbox, folder)
    IN  IF em.err # Nil THEN [err |-> em.err, dir |-> <<>>, maildirs |-> md]
        ELSE IF fp.err # Nil
             THEN [err |-> fp.err, dir |-> <<>>, maildirs |-> em.maildirs]
        ELSE [err |-> Nil, dir |-> fp.path,
              maildirs |-> em.maildirs \cup {fp.path}]

\* DeliverToFolder once the folder is resolved to rt.
deliverToResolved(st, rt, data) ==
    IF rt.err # Nil
    THEN [err |-> rt.err, maildirs |-> rt.maildirs, files |-> st.files,
          nextKey |-> st.nextKey]
    ELSE [err |-> Nil] @@
         deliverOne(st, rt, [IdleProc EXCEPT !.dir = rt.dir, !.key = st.nextKey,
                                             !.data = data,
                                             !.off = Len(data) - 1])

\* DeliverToFolder with nothing in between.
DeliverToFolder(mailbox, folder, data) ==
    deliverToResolved([maildirs |-> maildirs, files |-> files,
                       nextKey |-> nextKey],
                      ensureFolderMaildir(maildirs, mailbox, folder), data)

\* maildirNewKeys: the names in new/.
maildirNewKeys(fs, path) == {f.key : f \in InSub(fs, path, "new")}

\* moveNewToCurWithFlags: rename new/key to cur/key:2,flags.
moveNewToCurWithFlags(fs, path, key, flags) ==
    {IF f.dir = path /\ f.sub = "new" /\ f.key = key
     THEN [f EXCEPT !.sub = "cur", !.flags = flags] ELSE f : f \in fs}

\* Message.SetFlags giving the file a name with another key.
SetFlagsOtherKey(fs, path, uid, flags) ==
    {IF f.dir = path /\ f.sub = "cur" /\ f.key = uid
     THEN [f EXCEPT !.flags = flags, !.key = uid + MaxKeys] ELSE f : f \in fs}

\* Message.SetFlags: the flags in the file name replaced.
SetFlags(fs, path, uid, flags) ==
    {IF f.dir = path /\ f.sub = "cur" /\ f.key = uid
     THEN [f EXCEPT !.flags = flags] ELSE f : f \in fs}

\* SetFlagsInFolder: the message of cur/, or else the message of new/, which
\* is moved into cur/ with the flags.
SetFlagsInFolder(mailbox, folder, uid, flags) ==
    LET pp == folderOrInboxPath(mailbox, folder)
    IN  IF pp.err # Nil THEN [err |-> pp.err, files |-> files]
        ELSE IF MessageByKey(files, pp.path, uid) # {}
             THEN [err |-> Nil,
                   files |-> SetFlags(files, pp.path, uid,
                                      convertFlagsFromIMAP(flags))]
        ELSE IF uid \in maildirNewKeys(files, pp.path)
             THEN [err |-> Nil,
                   files |-> moveNewToCurWithFlags(files, pp.path, uid,
                                 convertFlagsFromIMAP(flags))]
        ELSE [err |-> ErrMessageNotFound, files |-> files]

\* The disk as it is now.
Disk == [maildirs |-> maildirs, files |-> files, nextKey |-> nextKey]

\* Deliver
Deliver(recipients, data) == DeliverFrom(Disk, recipients, data)

\* EncryptingDeliveryAgent (src/encrypting_delivery.go).  What the key
\* provider answers for a user: encryption off, HasEncryption failing,
\* GetPublicKey failing, a key, or a key of the wrong size.
KeyStates == {"off", "lookupError", "keyError", "key", "shortKey"}

PublicKeySize == 32
NonceSize == 24

\* extractUsername: the address up to its first @, or all of it.
extractUsername(email) ==
    IF Index(email, "@") = 0 THEN email
    ELSE SubSeq(email, 1, Index(email, "@") - 1)

\* A slice of n copies of one value.
Fill(n, ch) == [i \in 1..n |-> ch]

\* NaCl box (golang.org/x/crypto/nacl/box), as an ideal authenticated box.
\* A private key is 32 bytes; its public key is the key with every byte one
\* less; the secret two parties share is fixed by their two public keys.
BoxOverhead == 16
BoxPublic(priv) == [k \in 1..Len(priv) |-> priv[k] - 1]
BoxShared(peerPub, priv) == {peerPub, BoxPublic(priv)}

\* The keystream applied to a byte and taken off it.
BoxMask(b) == b + 100
BoxUnmask(b) == b - 100

\* The authenticator of a sealed body: it stands for the secret, the nonce
\* and every byte of the body, in the first of its 16 places.
BoxTag(shared, nonce, body) ==
    <<<<shared, nonce, body>>>> \o Fill(BoxOverhead - 1, 0)

\* box.Seal: the authenticator, then the masked message.
BoxSeal(message, nonce, peerPub, priv) ==
    BoxTag(BoxShared(peerPub, priv), nonce,
           [k \in 1..Len(message) |-> BoxMask(message[k])])
      \o [k \in 1..Len(message) |-> BoxMask(message[k])]

\* box.Open: the message, when the authenticator is the one of the body
\* under this secret and nonce.
BoxOpen(ciphertext, nonce, peerPub, priv) ==
    IF Len(ciphertext) < BoxOverhead THEN [ok |-> FALSE, data |-> <<>>]
    ELSE IF SubSeq(ciphertext, 1, BoxOverhead)
              = BoxTag(BoxShared(peerPub, priv), nonce,
                       SubSeq(ciphertext, BoxOverhead + 1, Len(ciphertext)))
         THEN [ok |-> TRUE,
               data |-> [k \in 1..(Len(ciphertext) - BoxOverhead) |->
                            BoxUnmask(ciphertext[BoxOverhead + k])]]
    ELSE [ok |-> FALSE, data |-> <<>>]

\* The n-th draw from crypto/rand inside encryptMessage: the ephemeral
\* private key of box.GenerateKey and the nonce.  Every draw is a value no
\* other draw gives.
Drawn(n) == [priv |-> Fill(PublicKeySize, 2 * n + 1), nonce |-> Fill(NonceSize, n)]

\* The key pairs of the users: the private key, and the public key the key
\* provider holds.
UserPrivateKey(username) ==
    Fill(PublicKeySize, IF username = extractUsername(IdADom) THEN 201 ELSE 203)
UserPublicKey(username) == BoxPublic(UserPrivateKey(username))

\* What GetPublicKey returned for the user: the key, or a key one byte short.
GetPublicKey(ks, username) ==
    IF ks = "key" THEN UserPublicKey(username)
    ELSE SubSeq(UserPublicKey(username), 1, PublicKeySize - 1)

\* encryptMessage sealing with a nonce of zeros instead of the one drawn.
encryptMessageFixedNonce(message, recipientPubKey, rnd) ==
    IF Len(recipientPubKey) # PublicKeySize
    THEN [err |-> "invalid recipient public key size", data |-> <<>>]
    ELSE [err |-> Nil,
          data |-> BoxPublic(rnd.priv) \o Fill(NonceSize, 0)
                     \o BoxSeal(message, Fill(NonceSize, 0), recipientPubKey,
                                rnd.priv)]

\* encryptMessage writing the nonce before the ephemeral public key.
encryptMessageNonceFirst(message, recipientPubKey, rnd) ==
    IF Len(recipientPubKey) # PublicKeySize
    THEN [err |-> "invalid recipient public key size", data |-> <<>>]
    ELSE [err |-> Nil,
          data |-> rnd.nonce \o BoxPublic(rnd.priv)
                     \o BoxSeal(message, rnd.nonce, recipientPubKey, rnd.priv)]

\* encryptMessage: the ephemeral public key, the nonce and the sealed
\* message; rnd is what the call drew.
encryptMessage(message, recipientPubKey, rnd) ==
    IF Len(recipientPubKey) # PublicKeySize
    THEN [err |-> "invalid recipient public key size", data |-> <<>>]
    ELSE [err |-> Nil,
          data |-> BoxPublic(rnd.priv) \o rnd.nonce
                     \o BoxSeal(message, rnd.nonce, recipientPubKey, rnd.priv)]

\* The end of DecryptMessage returning what it could unmask when the box
\* does not open.
openedPartial(o, ciphertext) ==
    IF o.ok THEN [err |-> Nil, data |-> o.data]
    ELSE [err |-> "decryption failed",
          data |-> [k \in 1..(Len(ciphertext) - BoxOverhead) |->
                       ciphertext[BoxOverhead + k]]]

\* The end of DecryptMessage: the plaintext, or an error and nothing.
opened(o, ciphertext) ==
    IF o.ok THEN [err |-> Nil, data |-> o.data]
    ELSE [err |-> "decryption failed", data |-> <<>>]

\* DecryptMessage: the sizes checked, the envelope cut into ephemeral public
\* key, nonce and ciphertext, and the box opened.
DecryptMessage(encryptedData, privateKey) ==
    IF Len(privateKey) # PublicKeySize
    THEN [err |-> "invalid private key size", data |-> <<>>]
    ELSE IF Len(encryptedData) < PublicKeySize + NonceSize + BoxOverhead
         THEN [err |-> "encrypted data too short", data |-> <<>>]
    ELSE opened(BoxOpen(SubSeq(encryptedData, PublicKeySize + NonceSize + 1,
                               Len(encryptedData)),
                        SubSeq(encryptedData, PublicKeySize + 1,
                               PublicKeySize + NonceSize),
                        SubSeq(encryptedData, 1, PublicKeySize), privateKey),
                SubSeq(encryptedData, PublicKeySize + NonceSize + 1,
                       Len(encryptedData)))

\* What the key provider answers for a name: as set up for a user it
\* knows, and no encryption for a name that is not a user (HasEncryption
\* "returns false if the user does not exist").
KeyState(kp, username) ==
    IF username \in DOMAIN kp THEN kp[username] ELSE "off"

\* The recipients delivered in plaintext and those delivered encrypted.
IsEncrypted(kp, recipient) ==
    KeyState(kp, extractUsername(recipient)) \in {"key", "shortKey"}

RECURSIVE plaintextRecipients(_, _)
plaintextRecipients(kp, recipients) ==
    IF recipients = <<>> THEN <<>>
    ELSE (IF IsEncrypted(kp, Head(recipients)) THEN <<>>
          ELSE <<Head(recipients)>>)
            \o plaintextRecipients(kp, Tail(recipients))

RECURSIVE encryptedRecipients(_, _)
encryptedRecipients(kp, recipients) ==
    IF recipients = <<>> THEN <<>>
    ELSE (IF IsEncrypted(kp, Head(recipients)) THEN <<Head(recipients)>>
          ELSE <<>>)
            \o encryptedRecipients(kp, Tail(recipients))

RECURSIVE encryptedLoop(_, _, _, _)
RECURSIVE encryptedOne(_, _, _, _, _)
RECURSIVE encryptedNext(_, _, _, _)

\* The loop over the encrypted recipients: encrypt, deliver to the one
\* recipient, return on the first error.  The draws are numbered by the file
\* name counter, which differs from one pass of the loop to the next.
encryptedLoop(st, kp, rcpts, data) ==
    IF rcpts = <<>>
    THEN [err |-> Nil, maildirs |-> st.maildirs, files |-> st.files,
          nextKey |-> st.nextKey]
    ELSE encryptedOne(st, kp, rcpts, data,
                      encryptMessage(data,
                          GetPublicKey(KeyState(kp, extractUsername(Head(rcpts))),
                                       extractUsername(Head(rcpts))),
                          Drawn(st.nextKey)))

encryptedOne(st, kp, rcpts, data, em) ==
    IF em.err # Nil
    THEN [err |-> em.err, maildirs |-> st.maildirs, files |-> st.files,
          nextKey |-> st.nextKey]
    ELSE encryptedNext(DeliverFrom(st, <<Head(rcpts)>>, em.data),
                       kp, rcpts, data)

encryptedNext(o, kp, rcpts, data) ==
    IF o.err # Nil THEN o
    ELSE encryptedLoop([maildirs |-> o.maildirs, files |-> o.files,
                        nextKey |-> o.nextKey], kp, Tail(rcpts), data)

\* The agent after the plaintext delivery, whose outcome is o.
afterPlaintext(o, kp, recipients, data) ==
    IF o.err # Nil THEN o
    ELSE encryptedLoop([maildirs |-> o.maildirs, files |-> o.files,
                        nextKey |-> o.nextKey],
                       kp, encryptedRecipients(kp, recipients), data)

\* The plaintext delivery, made only when there is a plaintext recipient.
plaintextDelivery(st, plain, data) ==
    IF plain # <<>> THEN DeliverFrom(st, plain, data)
    ELSE [err |-> Nil, maildirs |-> st.maildirs, files |-> st.files,
          nextKey |-> st.nextKey]

\* EncryptingDeliveryAgent.Deliver around the store.
EncryptingDeliver(recipients, data, kp) ==
    afterPlaintext(plaintextDelivery(Disk, plaintextRecipients(kp, recipients),
                                     data),
                   kp, recipients, data)


\* EncryptingDeliveryAgent.Deliver around any DeliveryAgent: what it hands
\* to the agent, call by call.  fails says which of the agent's deliveries
\* return an error: the one of the plaintext group (fails.plain) and those
\* of the encrypted recipients in fails.enc.  draws counts the draws from
\* crypto/rand made so far.
EncryptionAlgorithm == "x25519-xsalsa20-poly1305"

\* envelope.Encryption: nil, or the pointer to the EncryptionInfo.
NoEncryption == <<>>
Encrypted == <<[Algorithm |-> EncryptionAlgorithm, Encrypted |-> TRUE]>>

\* The delivery handed to the underlying agent.
Handed(recipients, message, encryption) ==
    [Recipients |-> recipients, message |-> message, Encryption |-> encryption]

RECURSIVE handEncrypted(_, _, _, _, _, _)
RECURSIVE handSealed(_, _, _, _, _, _, _)

\* The loop over the encrypted recipients: encrypt with a new draw, hand
\* the one recipient over, return on the first error.
handEncrypted(kp, rcpts, data, fails, draws, calls) ==
    IF rcpts = <<>> THEN [err |-> Nil, calls |-> calls, draws |-> draws]
    ELSE handSealed(kp, rcpts, data, fails, draws, calls,
                    encryptMessage(data,
                        GetPublicKey(KeyState(kp, extractUsername(Head(rcpts))),
                                     extractUsername(Head(rcpts))),
                        Drawn(draws + 1)))

handSealed(kp, rcpts, data, fails, draws, calls, em) ==
    IF em.err # Nil THEN [err |-> em.err, calls |-> calls, draws |-> draws]
    ELSE IF Head(rcpts) \in fails.enc
         THEN [err |-> "deliver failed", draws |-> draws + 1,
               calls |-> Append(calls, Handed(<<Head(rcpts)>>, em.data,
                                              Encrypted))]
    ELSE handEncrypted(kp, Tail(rcpts), data, fails, draws + 1,
                       Append(calls, Handed(<<Head(rcpts)>>, em.data,
                                            Encrypted)))

\* The plaintext delivery, made only when there is a plaintext recipient,
\* and the rest after it.
handPlaintext(kp, recipients, data, fails, draws, plain) ==
    IF plain = <<>>
    THEN handEncrypted(kp, encryptedRecipients(kp, recipients), data, fails,
                       draws, <<>>)
    ELSE IF fails.plain
         THEN [err |-> "deliver failed", draws |-> draws,
               calls |-> <<Handed(plain, data, NoEncryption)>>]
    ELSE handEncrypted(kp, encryptedRecipients(kp, recipients), data, fails,
                       draws, <<Handed(plain, data, NoEncryption)>>)

EncryptingHandoff(kp, recipients, data, fails, draws) ==
    handPlaintext(kp, recipients, data, fails, draws,
                  plaintextRecipients(kp, recipients))

\* ListFolders: ErrMailboxNotFound when the mailbox has no cur/; otherwise
\* the names, without their dot, of the directories of the mailbox that
\* start with a dot and hold a cur/.
ListFolders(mailbox) ==
    IF mailboxPath(mailbox).err # Nil
    THEN [err |-> mailboxPath(mailbox).err, folders |-> {}]
    ELSE IF ~HasMaildir(maildirs, mailboxPath(mailbox).path)
    THEN [err |-> ErrMailboxNotFound, folders |-> {}]
    ELSE [err |-> Nil,
          folders |->
              {SubSeq(d, Len(mailboxPath(mailbox).path) + 3, Len(d)) :
                 d \in {e \in maildirs :
                          /\ HasPrefix(e, mailboxPath(mailbox).path
                                             \o <<"/", ".">>)
                          /\ Index(SubSeq(e, Len(mailboxPath(mailbox).path) + 3,
                                          Len(e)), "/") = 0}}]

\* The bytes of a character of a name.  "0xCC" and "0xC4" are the single
\* bytes of these values, which a Go string may hold.
OtherBytes ==
    {<<"@", <<64>>>>, <<".", <<46>>>>, <<"/", <<47>>>>, <<":", <<58>>>>,
     <<"+", <<43>>>>, <<"-", <<45>>>>, <<"_", <<95>>>>, <<"$", <<36>>>>,
     <<"1", <<49>>>>, <<"2", <<50>>>>, <<"0xCC", <<204>>>>,
     <<"0xC4", <<196>>>>, <<"U+00E9", <<195, 169>>>>}
BytesOfChar(ch) ==
    IF \E i \in 1..Len(LowerCase) : LowerCase[i] = ch
    THEN <<96 + CHOOSE i \in 1..Len(LowerCase) : LowerCase[i] = ch>>
    ELSE IF \E i \in 1..Len(UpperCase) : UpperCase[i] = ch
    THEN <<64 + CHOOSE i \in 1..Len(UpperCase) : UpperCase[i] = ch>>
    ELSE (CHOOSE e \in OtherBytes : e[1] = ch)[2]

RECURSIVE BytesOf(_)
BytesOf(name) ==
    IF name = <<>> THEN <<>>
    ELSE BytesOfChar(Head(name)) \o BytesOf(Tail(name))

\* A uint32 is kept as its two halves of 16 bits, <<high, low>>.
Half == 65536
RECURSIVE Xor(_, _)
Xor(x, y) ==
    IF x = 0 THEN y
    ELSE IF y = 0 THEN x
    ELSE 2 * Xor(x \div 2, y \div 2) + ((x + y) % 2)

\* hash/fnv New32a: offset basis 2166136261, and for every byte an xor into
\* the low byte and a multiplication by the prime 16777619 = 2^24 + 403,
\* modulo 2^32.
FnvOffset32 == <<33052, 40389>>
FnvPrimeLow == 403
FnvXor(h, b) == <<h[1], Xor(h[2], b)>>
FnvMul(h) ==
    <<(h[1] * FnvPrimeLow + (h[2] * FnvPrimeLow) \div Half
         + (h[2] % 256) * 256) % Half,
      (h[2] * FnvPrimeLow) % Half>>
RECURSIVE FnvWrite(_, _)
FnvWrite(h, bytes) ==
    IF bytes = <<>> THEN h
    ELSE FnvWrite(FnvMul(FnvXor(h, Head(bytes))), Tail(bytes))
Sum32(name) == FnvWrite(FnvOffset32, BytesOf(name))

\* filepath.Base of a cleaned path.
Base(path) ==
    IF path = <<>> THEN <<".">>
    ELSE IF path = <<"/">> THEN path
    ELSE SubSeq(path, LastIndex(path, "/") + 1, Len(path))

\* The name up to its first colon.
StripFlagSuffix(name) ==
    IF Index(name, ":") = 0 THEN name
    ELSE SubSeq(name, 1, Index(name, ":") - 1)

\* UIDValidity returning the hash as it is.
UIDValidityOfSum(mailbox, folder) ==
    IF EqualFold(folder, FolderInbox) /\ mailboxPath(mailbox).err # Nil
    THEN [v |-> <<0, 0>>, err |-> mailboxPath(mailbox).err]
    ELSE [v |-> Sum32(StripFlagSuffix(
                    IF EqualFold(folder, FolderInbox)
                    THEN Base(mailboxPath(mailbox).path) ELSE folder)),
          err |-> Nil]

\* UIDValidity: the FNV-1a hash of the folder name, or of the last element
\* of the mailbox path for INBOX, and 1 in place of a hash of 0.
UIDValidity(mailbox, folder) ==
    IF EqualFold(folder, FolderInbox) /\ mailboxPath(mailbox).err # Nil
    THEN [v |-> <<0, 0>>, err |-> mailboxPath(mailbox).err]
    ELSE IF Sum32(StripFlagSuffix(
                IF EqualFold(folder, FolderInbox)
                THEN Base(mailboxPath(mailbox).path) ELSE folder)) = <<0, 0>>
         THEN [v |-> <<0, 1>>, err |-> Nil]
    ELSE [v |-> Sum32(StripFlagSuffix(
                    IF EqualFold(folder, FolderInbox)
                    THEN Base(mailboxPath(mailbox).path) ELSE folder)),
          err |-> Nil]

\* The paths the fallbacks of SetFlagsInFolder and CopyMessage hand to the
\* operating system for a uid that dir.MessageByKey did not find in cur/.
\* present says whether os.Stat finds a file at the path of the uid.
NewDirName == <<"n", "e", "w">>
CurDirName == <<"c", "u", "r">>
Touch(op, path) == [op |-> op, path |-> path]

\* moveNewToCurWithFlags: the two paths of its os.Rename.
moveNewToCurPaths(dirPath, key, info) ==
    {Touch("rename from", Join(<<dirPath, NewDirName, key>>)),
     Touch("rename to", Join(<<dirPath, CurDirName, key \o <<":">> \o info>>))}

\* SetFlagsInFolder for a uid not in cur/.
SetFlagsInFolderPaths(mailbox, folder, uid, info, present) ==
    IF folderOrInboxPath(mailbox, folder).err # Nil
    THEN [err |-> folderOrInboxPath(mailbox, folder).err, touched |-> {}]
    ELSE IF present
    THEN [err |-> Nil,
          touched |->
              {Touch("stat", Join(<<folderOrInboxPath(mailbox, folder).path,
                                    NewDirName, uid>>))}
                \cup moveNewToCurPaths(
                         folderOrInboxPath(mailbox, folder).path, uid, info)]
    ELSE [err |-> ErrMessageNotFound,
          touched |->
              {Touch("stat", Join(<<folderOrInboxPath(mailbox, folder).path,
                                    NewDirName, uid>>))}]

\* CopyMessage for a uid not in cur/ of the source: the destination is
\* made, the file of the uid is looked for and read.
CopyMessagePaths(mailbox, srcFolder, uid, destFolder, present) ==
    IF folderOrInboxPath(mailbox, srcFolder).err # Nil
    THEN [err |-> folderOrInboxPath(mailbox, srcFolder).err, touched |-> {}]
    ELSE IF folderOrInboxPath(mailbox, destFolder).err # Nil
    THEN [err |-> folderOrInboxPath(mailbox, destFolder).err, touched |-> {}]
    ELSE IF present
    THEN [err |-> Nil,
          touched |->
              {Touch("mkdir", folderOrInboxPath(mailbox, destFolder).path),
               Touch("stat", Join(<<folderOrInboxPath(mailbox, srcFolder).path,
                                    NewDirName, uid>>)),
               Touch("read", Join(<<folderOrInboxPath(mailbox, srcFolder).path,
                                    NewDirName, uid>>)),
               Touch("create",
                     Join(<<folderOrInboxPath(mailbox, destFolder).path,
                            NewDirName>>))}]
    ELSE [err |-> ErrMessageNotFound,
          touched |->
              {Touch("mkdir", folderOrInboxPath(mailbox, destFolder).path),
               Touch("stat", Join(<<folderOrInboxPath(mailbox, srcFolder).path,
                                    NewDirName, uid>>))}]

-----------------------------------------------------------------------------
(* Actions: one call of a handler, or one step of a call that other calls   *)
(* can interleave with (a delivery between its writes, an expunge between   *)
(* taking the set and removing the files).  What a call returns is the      *)
(* value of its operator above in the state it is called in.                *)

\* The marks held anywhere: in an instance's table, or taken by an expunge
\* that has not finished.
AllMarks(table, ps) ==
    UNION {{<<i, e>> : e \in table[i]} : i \in Instances}
      \cup UNION {{<<p, ps[p].dkey, u>> : u \in ps[p].taken} : p \in Procs}

\* The goroutine a new call runs on: the first one free of those in ps.
FreeProc(p, ps) ==
    /\ p \in ps
    /\ procs[p].pc = "idle"
    /\ \A q \in ps : q < p => procs[q].pc # "idle"

NoProcOf(i) == \A p \in Procs : procs[p].inst # i

\* NewStore: a store instance opened on the base directory, its table empty.
NewStoreCall(i) ==
    /\ NoProcOf(i)
    /\ deleted' = [deleted EXCEPT ![i] = {}]
    /\ UNCHANGED <<cfg, maildirs, files, nextKey, procs, pin, pout>>

ListCall(i, mailbox) ==
    LET o == List(i, mailbox)
    IN  /\ files' = o.files
        /\ maildirs' = o.maildirs
        /\ UNCHANGED <<cfg, deleted, nextKey, procs, pin, pout>>

StatCall(i, mailbox) ==
    LET o == Stat(i, mailbox)
    IN  /\ files' = o.files
        /\ maildirs' = o.maildirs
        /\ UNCHANGED <<cfg, deleted, nextKey, procs, pin, pout>>

\* Retrieve reads and returns: Retrieve(i, mailbox, uid) is its result.
RetrieveCall(i, mailbox, uid) ==
    /\ Retrieve(i, mailbox, uid).err \in
            {Nil, ErrPathTraversal, ErrMessageDeleted, "KeyError"}
    /\ UNCHANGED vars

DeleteCall(i, mailbox, uid) ==
    LET o == Delete(i, mailbox, uid)
    IN  /\ deleted' = [deleted EXCEPT ![i] = o.deleted]
        /\ Cardinality(AllMarks(deleted', procs)) <= MaxMarks
        /\ UNCHANGED <<cfg, maildirs, files, nextKey, procs, pin, pout>>

CreateFolderCall(i, mailbox, folder) ==
    LET o == CreateFolder(mailbox, folder)
    IN  /\ maildirs' = o.maildirs
        /\ UNCHANGED <<cfg, files, deleted, nextKey, procs, pin, pout>>

DeleteFolderCall(i, mailbox, folder) ==
    LET o == DeleteFolder(i, mailbox, folder)
    IN  /\ files' = o.files
        /\ maildirs' = o.maildirs
        /\ deleted' = [deleted EXCEPT ![i] = o.deleted]
        /\ UNCHANGED <<cfg, nextKey, procs, pin, pout>>

ListInFolderCall(i, mailbox, folder) ==
    LET o == ListInFolder(i, mailbox, folder)
    IN  /\ files' = o.files
        /\ UNCHANGED <<cfg, maildirs, deleted, nextKey, procs, pin, pout>>

StatFolderCall(i, mailbox, folder) ==
    LET o == StatFolder(i, mailbox, folder)
    IN  /\ files' = o.files
        /\ UNCHANGED <<cfg, maildirs, deleted, nextKey, procs, pin, pout>>

\* RetrieveFromFolder reads and returns.
RetrieveFromFolderCall(i, mailbox, folder, uid) ==
    /\ RetrieveFromFolder(i, mailbox, folder, uid).err \in
            {Nil, ErrPathTraversal, ErrInvalidFolderName, ErrMessageDeleted,
             "KeyError"}
    /\ UNCHANGED vars

DeleteInFolderCall(i, mailbox, folder, uid) ==
    LET o == DeleteInFolder(i, mailbox, folder, uid)
    IN  /\ deleted' = [deleted EXCEPT ![i] = o.deleted]
        /\ Cardinality(AllMarks(deleted', procs)) <= MaxMarks
        /\ UNCHANGED <<cfg, maildirs, files, nextKey, procs, pin, pout>>

\* Expunge and ExpungeFolder up to the unlock: the set is taken and the entry
\* deleted; an empty set ends the call.
ExpungeTake(p, i, op, mailbox, folder) ==
    LET key == IF op = "Expunge" THEN mailbox
               ELSE folderDeletionKey(mailbox, folder)
        t == takeAndClear(deleted[i], key)
    IN  /\ FreeProc(p, ExpungeProcs)
        /\ deleted' = [deleted EXCEPT ![i] = t.deleted]
        /\ IF t.taken = {}
           THEN UNCHANGED procs
           ELSE procs' = [procs EXCEPT ![p] =
                    [IdleProc EXCEPT !.pc = "remove", !.op = op, !.inst = i,
                                     !.mb = mailbox, !.folder = folder,
                                     !.dkey = key, !.taken = t.taken]]
        /\ UNCHANGED <<cfg, maildirs, files, nextKey, pin, pout>>

ExpungeCall(p, i, mailbox) == ExpungeTake(p, i, "Expunge", mailbox, <<>>)

ExpungeFolderCall(p, i, mailbox, folder) ==
    ExpungeTake(p, i, "ExpungeFolder", mailbox, folder)

\* Expunge and ExpungeFolder after the unlock.
ExpungeRemove(p) ==
    LET pr == procs[p]
        o == expungeRest(pr.op, pr.mb, pr.folder, pr.taken)
    IN  /\ pr.pc = "remove"
        /\ files' = o.files
        /\ procs' = [procs EXCEPT ![p] = IdleProc]
        /\ UNCHANGED <<cfg, maildirs, deleted, nextKey, pin, pout>>

RenameFolderCall(i, mailbox, oldName, newName) ==
    LET o == RenameFolder(i, mailbox, oldName, newName)
    IN  /\ files' = o.files
        /\ maildirs' = o.maildirs
        /\ deleted' = [deleted EXCEPT ![i] = o.deleted]
        /\ UNCHANGED <<cfg, nextKey, procs, pin, pout>>

DeliverToFolderCall(i, mailbox, folder, data) ==
    LET o == DeliverToFolder(mailbox, folder, data)
    IN  /\ o.nextKey <= MaxKeys + 1
        /\ maildirs' = o.maildirs
        /\ files' = o.files
        /\ nextKey' = o.nextKey
        /\ UNCHANGED <<cfg, deleted, procs, pin, pout>>

\* AppendToFolder up to the end of the delivery: the path resolved, the
\* maildir made if missing, new/ read, the message staged, written and
\* linked into new/.
AppendToFolderCall(p, i, mailbox, folder, data, flags) ==
    LET pp == folderOrInboxPath(mailbox, folder)
        me == [IdleProc EXCEPT !.op = "AppendToFolder", !.inst = i,
                               !.mb = mailbox, !.folder = folder,
                               !.data = data, !.flags = flags]
    IN  /\ procs[p].pc = "idle"
        /\ nextKey <= MaxKeys
        /\ IF pp.err # Nil
           THEN /\ procs' = [procs EXCEPT ![p] =
                                [me EXCEPT !.pc = "ret", !.ret = pp.err]]
                /\ UNCHANGED <<maildirs, files, nextKey>>
           ELSE /\ maildirs' = maildirs \cup {pp.path}
                /\ files' = files \cup {[dir |-> pp.path, sub |-> "new",
                                          key |-> nextKey, flags |-> {},
                                          data |-> data]}
                /\ nextKey' = nextKey + 1
                /\ procs' = [procs EXCEPT ![p] =
                     [me EXCEPT !.pc = "append", !.dir = pp.path,
                                !.key = nextKey,
                                !.taken = maildirNewKeys(files, pp.path)]]
        /\ UNCHANGED <<cfg, deleted, pin, pout>>

\* AppendToFolder after the delivery: maildirNewKey reads new/ again and
\* takes an entry that was not there before (os.ReadDir gives the entries
\* in the order of their names, which is not the order they were made in),
\* and the entry is moved into cur/ with the flags.
AppendToFolderMove(p) ==
    LET pr == procs[p]
        found == maildirNewKeys(files, pr.dir) \ pr.taken
    IN  /\ pr.pc = "append"
        /\ IF ~HasMaildir(maildirs, pr.dir)
           THEN /\ procs' = [procs EXCEPT ![p] =
                                [pr EXCEPT !.pc = "ret", !.ret = ErrIO]]
                /\ UNCHANGED files
           ELSE IF found = {}
           THEN /\ procs' = [procs EXCEPT ![p] =
                         [pr EXCEPT !.pc = "ret", !.ret = ErrMessageNotFound]]
                /\ UNCHANGED files
           ELSE \E k \in found :
                  /\ files' = moveNewToCurWithFlags(files, pr.dir, k,
                                    convertFlagsFromIMAP(pr.flags))
                  /\ procs' = [procs EXCEPT ![p] =
                         [pr EXCEPT !.pc = "ret", !.ret = Nil, !.uid = k]]
        /\ UNCHANGED <<cfg, maildirs, deleted, nextKey, pin, pout>>

SetFlagsInFolderCall(i, mailbox, folder, uid, flags) ==
    LET o == SetFlagsInFolder(mailbox, folder, uid, flags)
    IN  /\ files' = o.files
        /\ UNCHANGED <<cfg, maildirs, deleted, nextKey, procs, pin, pout>>

\* The goroutine's record of a CopyMessage call.
CopyProc(i, mailbox, srcFolder, uid, destFolder) ==
    [IdleProc EXCEPT !.op = "CopyMessage", !.inst = i, !.mb = mailbox,
                     !.folder = srcFolder, !.arg = uid, !.dest = destFolder]

\* Message.CopyTo: a copy in cur/ of the destination under a new key, with
\* the flags of the source.
CopyTo(fs, f, destPath, key) ==
    fs \cup {[dir |-> destPath, sub |-> "cur", key |-> key, flags |-> f.flags,
              data |-> f.data]}

\* CopyMessage up to the end of the copy: both paths resolved, the
\* destination made if missing; a source in cur/ is copied with CopyTo and
\* the call returns; a source in new/ is read and delivered into new/ of the
\* destination, whose entries were read before.
CopyMessageCall(p, i, mailbox, srcFolder, uid, destFolder, limit) ==
    LET sp == folderOrInboxPath(mailbox, srcFolder)
        dp == folderOrInboxPath(mailbox, destFolder)
        me == CopyProc(i, mailbox, srcFolder, uid, destFolder)
        inCur == MessageByKey(files, sp.path, uid)
        inNew == {f \in InSub(files, sp.path, "new") : f.key = uid}
    IN  /\ procs[p].pc = "idle"
        /\ nextKey <= limit
        /\ IF sp.err # Nil \/ dp.err # Nil
           THEN /\ procs' = [procs EXCEPT ![p] =
                      [me EXCEPT !.pc = "ret",
                                 !.ret = IF sp.err # Nil THEN sp.err
                                         ELSE dp.err]]
                /\ UNCHANGED <<maildirs, files, nextKey>>
           ELSE IF inCur # {}
           THEN /\ maildirs' = maildirs \cup {dp.path}
                /\ files' = CopyTo(files, CHOOSE f \in inCur : TRUE, dp.path,
                                   nextKey)
                /\ nextKey' = nextKey + 1
                /\ procs' = [procs EXCEPT ![p] =
                      [me EXCEPT !.pc = "ret", !.ret = Nil, !.uid = nextKey,
                                 !.dir = dp.path, !.key = nextKey,
                                 !.data = (CHOOSE f \in inCur : TRUE).data]]
           ELSE IF inNew # {}
           THEN /\ maildirs' = maildirs \cup {dp.path}
                /\ files' = files \cup
                      {[dir |-> dp.path, sub |-> "new", key |-> nextKey,
                        flags |-> {},
                        data |-> (CHOOSE f \in inNew : TRUE).data]}
                /\ nextKey' = nextKey + 1
                /\ procs' = [procs EXCEPT ![p] =
                      [me EXCEPT !.pc = "copied", !.dir = dp.path,
                                 !.key = nextKey,
                                 !.taken = maildirNewKeys(files, dp.path),
                                 !.data = (CHOOSE f \in inNew : TRUE).data]]
           ELSE /\ maildirs' = maildirs \cup {dp.path}
                /\ procs' = [procs EXCEPT ![p] =
                      [me EXCEPT !.pc = "ret",
                                 !.ret = ErrMessageNotFound]]
                /\ UNCHANGED <<files, nextKey>>
        /\ UNCHANGED <<cfg, deleted, pin, pout>>

\* CopyMessage after the delivery: maildirNewKey reads new/ of the
\* destination again and returns an entry that was not there before.
CopyMessageFind(p) ==
    LET pr == procs[p]
        found == maildirNewKeys(files, pr.dir) \ pr.taken
    IN  /\ pr.pc = "copied"
        /\ IF ~HasMaildir(maildirs, pr.dir)
           THEN procs' = [procs EXCEPT ![p] =
                            [pr EXCEPT !.pc = "ret", !.ret = ErrIO]]
           ELSE IF found = {}
           THEN procs' = [procs EXCEPT ![p] =
                     [pr EXCEPT !.pc = "ret", !.ret = ErrMessageNotFound]]
           ELSE \E k \in found :
                  procs' = [procs EXCEPT ![p] =
                     [pr EXCEPT !.pc = "ret", !.ret = Nil, !.uid = k]]
        /\ UNCHANGED <<cfg, maildirs, files, deleted, nextKey, pin, pout>>

\* DeliverToFolder while fewer than limit file names are taken.
DeliverToFolderUpTo(i, mailbox, folder, data, limit) ==
    LET o == DeliverToFolder(mailbox, folder, data)
    IN  /\ o.nextKey <= limit + 1
        /\ maildirs' = o.maildirs
        /\ files' = o.files
        /\ nextKey' = o.nextKey
        /\ UNCHANGED <<cfg, deleted, procs, pin, pout>>

\* Deliver with no other call in between.
DeliverWhole(i, recipients, data) ==
    LET o == Deliver(recipients, data)
    IN  /\ o.nextKey <= MaxKeys + 1
        /\ maildirs' = o.maildirs
        /\ files' = o.files
        /\ nextKey' = o.nextKey
        /\ UNCHANGED <<cfg, deleted, procs, pin, pout>>

\* EncryptingDeliveryAgent.Deliver with no other call in between.
EncryptingDeliverCall(i, recipients, data, kp) ==
    LET o == EncryptingDeliver(recipients, data, kp)
    IN  /\ o.nextKey <= MaxKeys + 1
        /\ maildirs' = o.maildirs
        /\ files' = o.files
        /\ nextKey' = o.nextKey
        /\ UNCHANGED <<cfg, deleted, procs, pin, pout>>

\* Deliver up to the recipient loop: no recipients is an error; otherwise the
\* message is read into memory.
DeliverBegin(p, i, recipients, data) ==
    /\ procs[p].pc = "idle"
    /\ nextKey <= MaxKeys
    /\ IF recipients = <<>>
       THEN procs' = [procs EXCEPT ![p] =
                [IdleProc EXCEPT !.pc = "ret", !.op = "Deliver", !.inst = i,
                                 !.ret = ErrNoRecipients]]
       ELSE procs' = [procs EXCEPT ![p] =
                [IdleProc EXCEPT !.pc = "rcpt", !.op = "Deliver", !.inst = i,
                                 !.rcpts = recipients, !.data = data]]
    /\ UNCHANGED <<cfg, maildirs, files, deleted, nextKey, pin, pout>>

DeliverCall(p, i, recipients, data) ==
    /\ FreeProc(p, DeliverProcs)
    /\ DeliverBegin(p, i, recipients, data)

\* The loop's continue and the return after it: q is the process with the
\* recipient just handled removed; DeliverResult(q) is what Deliver returns.
RecipientDone(p, q) ==
    IF q.rcpts = <<>>
    THEN procs' = [procs EXCEPT ![p] =
                      [q EXCEPT !.pc = "ret", !.ret = DeliverResult(q)]]
    ELSE procs' = [procs EXCEPT ![p] = [q EXCEPT !.pc = "rcpt"]]

\* The caller has the value a call returned; the goroutine is free again.
DeliverReturn(p) ==
    /\ procs[p].pc = "ret"
    /\ procs' = [procs EXCEPT ![p] = IdleProc]
    /\ UNCHANGED <<cfg, maildirs, files, deleted, nextKey, pin, pout>>

\* One recipient: resolve the target and open the delivery.
DeliverResolve(p) ==
    LET pr == procs[p]
        rt == resolveTarget(maildirs, Head(pr.rcpts))
    IN  /\ pr.pc = "rcpt"
        /\ IF rt.err # Nil
           THEN /\ RecipientDone(p, [pr EXCEPT !.lastErr = rt.err,
                                               !.rcpts = Tail(pr.rcpts)])
                /\ UNCHANGED <<maildirs, files, nextKey>>
           ELSE /\ nextKey <= MaxKeys
                /\ maildirs' = rt.maildirs
                /\ files' = NewDelivery(files, rt.dir, nextKey)
                /\ nextKey' = nextKey + 1
                /\ procs' = [procs EXCEPT ![p] =
                       [pr EXCEPT !.pc = "write", !.dir = rt.dir,
                                  !.key = nextKey, !.off = 0]]
        /\ UNCHANGED <<cfg, deleted, pin, pout>>

\* io.Copy, one byte at a time.
DeliverWrite(p) ==
    LET pr == procs[p]
    IN  /\ pr.pc = "write"
        /\ pr.off < Len(pr.data)
        /\ files' = DeliveryWrite(files, pr)
        /\ procs' = [procs EXCEPT ![p].off = pr.off + 1]
        /\ UNCHANGED <<cfg, maildirs, deleted, nextKey, pin, pout>>

\* io.Copy fails: the delivery is aborted and the recipient counted failed.
DeliverAbort(p) ==
    LET pr == procs[p]
    IN  /\ pr.pc = "write"
        /\ pr.off < Len(pr.data)
        /\ files' = DeliveryAbort(files, pr)
        /\ RecipientDone(p, [pr EXCEPT !.lastErr = ErrIO,
                                       !.rcpts = Tail(pr.rcpts)])
        /\ UNCHANGED <<cfg, maildirs, deleted, nextKey, pin, pout>>

\* delivery.Close once everything is written.
DeliverClose(p) ==
    LET pr == procs[p]
        c == DeliveryClose(files, maildirs, pr)
    IN  /\ pr.pc = "write"
        /\ pr.off = Len(pr.data)
        /\ files' = c.files
        /\ IF c.err # Nil
           THEN RecipientDone(p, [pr EXCEPT !.lastErr = c.err,
                                            !.rcpts = Tail(pr.rcpts)])
           ELSE RecipientDone(p, [pr EXCEPT !.delivered = pr.delivered + 1,
                                            !.rcpts = Tail(pr.rcpts)])
        /\ UNCHANGED <<cfg, maildirs, deleted, nextKey, pin, pout>>

-----------------------------------------------------------------------------
(* Deliveries, step by step, against the calls that read and the calls that *)
(* create and remove folders.                                               *)

NoPath == [kind |-> "none"]

Init ==
    /\ cfg \in Configs
    /\ maildirs = {}
    /\ files = {}
    /\ deleted = [i \in Instances |-> {}]
    /\ nextKey = 1
    /\ procs = [p \in Procs |-> IdleProc]
    /\ pin = NoPath
    /\ pout = NoPath

NextDeliver ==
    \/ \E p \in DeliverProcs, i \in Instances, e \in Envelopes, d \in Msgs :
            DeliverCall(p, i, e, d)
    \/ \E p \in DeliverProcs : DeliverResolve(p)
    \/ \E p \in DeliverProcs : DeliverWrite(p)
    \/ \E p \in DeliverProcs : DeliverAbort(p)
    \/ \E p \in DeliverProcs : DeliverClose(p)
    \/ \E p \in DeliverProcs : DeliverReturn(p)
    \/ \E i \in Instances, m \in ReaderIds : ListCall(i, m)
    \/ \E i \in Instances, m \in ReaderIds : StatCall(i, m)
    \/ \E i \in Instances, m \in ReaderIds, u \in Keys : RetrieveCall(i, m, u)
    \/ \E i \in Instances, m \in OwnerIds, f \in FolderArgs :
            CreateFolderCall(i, m, f)
    \/ \E i \in Instances, m \in OwnerIds, f \in FolderArgs :
            DeleteFolderCall(i, m, f)
    \/ \E i \in Instances, m \in OwnerIds, f \in FolderArgs :
            ListInFolderCall(i, m, f)
    \/ \E i \in Instances, m \in OwnerIds, f \in FolderArgs :
            StatFolderCall(i, m, f)
    \/ \E i \in Instances, m \in OwnerIds, f \in FolderArgs, u \in Keys :
            RetrieveFromFolderCall(i, m, f, u)

SpecDeliver == Init /\ [][NextDeliver]_vars

-----------------------------------------------------------------------------
(* Soft deletion and expunge in two instances, the expunges in two steps,   *)
(* against whole deliveries, listings and folder removal.                   *)

\* The uids a client can name: the file names drawn so far.
IssuedKeys == 1..(nextKey - 1)

NextExpunge ==
    \/ \E i \in Instances : NewStoreCall(i)
    \/ \E i \in Instances, e \in ExpungeEnvelopes :
            DeliverWhole(i, e, MsgTwo)
    \/ \E i \in Instances, m \in OwnerIds : ListCall(i, m)
    \/ \E i \in Instances, m \in OwnerIds, u \in IssuedKeys :
            DeleteCall(i, m, u)
    \/ \E i \in Instances, m \in OwnerIds : CreateFolderCall(i, m, FolderF)
    \/ \E i \in Instances, m \in OwnerIds : DeleteFolderCall(i, m, FolderF)
    \/ \E i \in Instances, m \in OwnerIds : ListInFolderCall(i, m, FolderF)
    \/ \E i \in Instances, m \in OwnerIds, u \in IssuedKeys :
            DeleteInFolderCall(i, m, FolderF, u)
    \/ \E p \in ExpungeProcs, i \in Instances, m \in OwnerIds :
            ExpungeCall(p, i, m)
    \/ \E p \in ExpungeProcs, i \in Instances, m \in OwnerIds :
            ExpungeFolderCall(p, i, m, FolderF)
    \/ \E p \in ExpungeProcs : ExpungeRemove(p)

SpecExpunge == Init /\ [][NextExpunge]_vars

-----------------------------------------------------------------------------
(* Two deliveries at a time into one mailbox, step by step, from either     *)
(* instance, against listings; nothing is deleted.                          *)

\* The goroutines that deliver at the same time.
ConcurrentProcs == {1, 2}

NextConcurrent ==
    \/ \E p \in ConcurrentProcs, i \in Instances, d \in Msgs :
            DeliverBegin(p, i, <<IdADom>>, d)
    \/ \E p \in ConcurrentProcs : DeliverResolve(p)
    \/ \E p \in ConcurrentProcs : DeliverWrite(p)
    \/ \E p \in ConcurrentProcs : DeliverAbort(p)
    \/ \E p \in ConcurrentProcs : DeliverClose(p)
    \/ \E p \in ConcurrentProcs : DeliverReturn(p)
    \/ \E i \in Instances : ListCall(i, IdADom)

SpecConcurrent == Init /\ [][NextConcurrent]_vars

-----------------------------------------------------------------------------
(* The folder operations of one instance on one mailbox: creation, renaming, *)
(* delivery and appending, soft deletion and expunge, against listings.      *)

\* The goroutine that appends and the one that expunges.
AppendProcs == {1}
FolderExpungeProcs == {2}
\* The instance the folder operations go through.
FolderInstances == {1}
\* Folder names the folder operations are called with.
FolderNames == {FolderF, FolderG, FolderDots}
\* The folders that are listed, marked and expunged.
ReadFolders == {FolderF, FolderG}
\* The folders DeliverToFolder is called with.
DeliverFolders == {FolderF, FolderDots}
\* The flags AppendToFolder is called with.
FlagLists == {<<"\\Flagged", "\\Seen">>, <<"$Junk">>}

\* The store of the folder operations: no template, no subdirectory.
InitFolders == Init /\ cfg = [template |-> TplNone, subdir |-> SubdirNone]

NextFolders ==
    \/ \E i \in FolderInstances, m \in OwnerIds, f \in FolderNames :
            CreateFolderCall(i, m, f)
    \/ \E i \in FolderInstances, m \in OwnerIds, f, g \in FolderNames :
            RenameFolderCall(i, m, f, g)
    \/ \E i \in FolderInstances, m \in OwnerIds, f \in DeliverFolders :
            DeliverToFolderCall(i, m, f, MsgTwo)
    \/ \E p \in AppendProcs, i \in FolderInstances, m \in OwnerIds,
          fl \in FlagLists :
            AppendToFolderCall(p, i, m, FolderF, MsgOne, fl)
    \/ \E p \in AppendProcs : AppendToFolderMove(p)
    \/ \E p \in AppendProcs : DeliverReturn(p)
    \/ \E i \in FolderInstances, m \in OwnerIds, f \in ReadFolders :
            ListInFolderCall(i, m, f)
    \/ \E i \in FolderInstances, m \in OwnerIds, f \in ReadFolders,
          u \in IssuedKeys : DeleteInFolderCall(i, m, f, u)
    \/ \E p \in FolderExpungeProcs, i \in FolderInstances, m \in OwnerIds,
          f \in ReadFolders : ExpungeFolderCall(p, i, m, f)
    \/ \E p \in FolderExpungeProcs : ExpungeRemove(p)

SpecFolders == InitFolders /\ [][NextFolders]_vars

-----------------------------------------------------------------------------
(* Messages of a folder listed, flagged and moved with their folder.         *)

\* The flags SetFlagsInFolder is called with.
SetFlagLists == FlagLists \cup {<<>>, <<"\\Deleted">>}

NextFlags ==
    \/ \E i \in FolderInstances, m \in OwnerIds, d \in Msgs :
            DeliverToFolderCall(i, m, FolderF, d)
    \/ \E i \in FolderInstances, m \in OwnerIds, f \in ReadFolders :
            ListInFolderCall(i, m, f)
    \/ \E i \in FolderInstances, m \in OwnerIds, f \in ReadFolders,
          u \in IssuedKeys, fl \in SetFlagLists :
            SetFlagsInFolderCall(i, m, f, u, fl)
    \/ \E i \in FolderInstances, m \in OwnerIds, f \in ReadFolders,
          g \in ReadFolders : RenameFolderCall(i, m, f, g)

SpecFlags == InitFolders /\ [][NextFlags]_vars

-----------------------------------------------------------------------------
(* CopyMessage from folder f into folder g, step by step, against            *)
(* deliveries into both folders and listings of both.                        *)

\* The file names the runs with CopyMessage draw.
MaxCopyKeys == 3
CopyProcs == {1}

\* The uids CopyMessage is called with: the keys of the deliveries so far,
\* and one that no message has.
CopyUids == IssuedKeys \cup {nextKey}

NextCopy ==
    \/ \E i \in FolderInstances, m \in OwnerIds, f \in ReadFolders,
          d \in Msgs : DeliverToFolderUpTo(i, m, f, d, MaxCopyKeys)
    \/ \E i \in FolderInstances, m \in OwnerIds, f \in ReadFolders :
            ListInFolderCall(i, m, f)
    \/ \E p \in CopyProcs, i \in FolderInstances, m \in OwnerIds,
          u \in CopyUids :
            CopyMessageCall(p, i, m, FolderF, u, FolderG, MaxCopyKeys)
    \/ \E p \in CopyProcs : CopyMessageFind(p)
    \/ \E p \in CopyProcs : DeliverReturn(p)

SpecCopy == InitFolders /\ [][NextCopy]_vars

-----------------------------------------------------------------------------
(* Deliveries through the EncryptingDeliveryAgent and on the store itself,  *)
(* each in one step, against listings.                                      *)

\* Recipient lists handed to the agent and to the store.
AgentEnvelopes == {<<>>, <<IdADom>>, <<IdC>>, <<IdADom, IdC>>}
\* The users the key provider is asked about.
Usernames == {extractUsername(r) : r \in {IdADom, IdC}}
KeyProviders == [Usernames -> KeyStates]

NextAgent ==
    \/ \E i \in Instances, e \in AgentEnvelopes, d \in Msgs :
            DeliverWhole(i, e, d)
    \/ \E i \in Instances, e \in AgentEnvelopes, d \in Msgs,
          kp \in KeyProviders : EncryptingDeliverCall(i, e, d, kp)
    \/ \E i \in Instances, m \in {IdADom, IdC} : ListCall(i, m)

SpecAgent == Init /\ [][NextAgent]_vars

-----------------------------------------------------------------------------
(* The EncryptingDeliveryAgent around an agent that records what it is      *)
(* handed: a key provider, then deliveries one after the other.             *)

\* The deliveries of a run.
MaxDeliveries == 2

HandoffEnvelopes == {<<IdADom>>, <<IdADom, IdC>>, <<IdC, IdADom>>, <<IdAExt>>}
Failures == [plain : BOOLEAN, enc : SUBSET {IdADom, IdC}]

InitHandoff ==
    /\ cfg = [template |-> TplNone, subdir |-> SubdirNone]
    /\ maildirs = {}
    /\ files = {}
    /\ deleted = [i \in Instances |-> {}]
    /\ nextKey = 1
    /\ procs = [p \in Procs |-> IdleProc]
    /\ pin \in [kind : {"keys"}, kp : KeyProviders]
    /\ pout = [kind |-> "log", n |-> 0, draws |-> 0, calls |-> <<>>,
               last |-> <<>>]

\* One call of EncryptingDeliveryAgent.Deliver: the agent's log grows by
\* what it was handed, and the call is remembered with what it returned.
AgentDeliver(recipients, data, fails) ==
    LET o == EncryptingHandoff(pin.kp, recipients, data, fails, pout.draws)
    IN  /\ pout.n < MaxDeliveries
        /\ pout' = [kind |-> "log", n |-> pout.n + 1, draws |-> o.draws,
                    calls |-> pout.calls \o o.calls,
                    last |-> <<[Recipients |-> recipients, message |-> data,
                               fails |-> fails, err |-> o.err,
                               calls |-> o.calls]>>]
        /\ UNCHANGED <<cfg, maildirs, files, deleted, nextKey, procs, pin>>

NextHandoff ==
    \E e \in HandoffEnvelopes, d \in Msgs, fl \in Failures :
        AgentDeliver(e, d, fl)

SpecHandoff == InitHandoff /\ [][NextHandoff]_vars

-----------------------------------------------------------------------------
(* encryptMessage and DecryptMessage alone: a message is encrypted for a    *)
(* user, the envelope is left as it is, cut short or changed in one byte,   *)
(* and DecryptMessage is called on it with a private key.                   *)

CryptoMsgs == Msgs \cup {<<>>}
CryptoDraws == {1, 2}

\* The private keys DecryptMessage is called with: those of the two users,
\* and one a byte short.
PrivateKeys ==
    {UserPrivateKey(u) : u \in Usernames}
        \cup {SubSeq(UserPrivateKey(u), 1, PublicKeySize - 1) : u \in Usernames}

InitCrypto ==
    /\ cfg = [template |-> TplNone, subdir |-> SubdirNone]
    /\ maildirs = {}
    /\ files = {}
    /\ deleted = [i \in Instances |-> {}]
    /\ nextKey = 1
    /\ procs = [p \in Procs |-> IdleProc]
    /\ pin \in [kind : {"crypto"}, message : CryptoMsgs, user : Usernames,
                 draw : CryptoDraws]
    /\ pout = [kind |-> "none"]

\* encryptMessage(message, public key of the user).
encryptMessageCall ==
    /\ pout.kind = "none"
    /\ pout' = [kind |-> "sealed", modified |-> FALSE,
                envelope |-> encryptMessage(pin.message,
                                 UserPublicKey(pin.user), Drawn(pin.draw)).data]
    /\ UNCHANGED <<cfg, maildirs, files, deleted, nextKey, procs, pin>>

\* The envelope loses its end.
Truncated ==
    /\ pout.kind = "sealed"
    /\ ~pout.modified
    /\ \E n \in 0..(Len(pout.envelope) - 1) :
          pout' = [pout EXCEPT !.modified = TRUE,
                               !.envelope = SubSeq(pout.envelope, 1, n)]
    /\ UNCHANGED <<cfg, maildirs, files, deleted, nextKey, procs, pin>>

\* One byte of the envelope is changed: a byte of the ephemeral key, of the
\* nonce, of the authenticator or of the masked message.
Modified ==
    /\ pout.kind = "sealed"
    /\ ~pout.modified
    /\ \E k \in 1..Len(pout.envelope) :
          pout' = [pout EXCEPT
                     !.modified = TRUE,
                     !.envelope[k] =
                         IF k = PublicKeySize + NonceSize + 1
                         THEN <<"forged">>
                         ELSE pout.envelope[k] + 1]
    /\ UNCHANGED <<cfg, maildirs, files, deleted, nextKey, procs, pin>>

\* DecryptMessage(envelope, privateKey).
DecryptMessageCall(privateKey) ==
    /\ pout.kind = "sealed"
    /\ pout' = [kind |-> "opened", modified |-> pout.modified,
                envelope |-> pout.envelope, privateKey |-> privateKey,
                err |-> DecryptMessage(pout.envelope, privateKey).err,
                data |-> DecryptMessage(pout.envelope, privateKey).data]
    /\ UNCHANGED <<cfg, maildirs, files, deleted, nextKey, procs, pin>>

NextCrypto ==
    \/ encryptMessageCall
    \/ Truncated
    \/ Modified
    \/ \E k \in PrivateKeys : DecryptMessageCall(k)

SpecCrypto == InitCrypto /\ [][NextCrypto]_vars

-----------------------------------------------------------------------------
(* UIDValidity between the folder operations of one instance.               *)

\* A name whose FNV-1a hash is 0, and a name with a flag suffix.
FolderZeroSum == <<"0xCC", "$", "1", "0xC4">>
FolderSuffixed == <<"f", ":", "2">>
UidArgs ==
    {<<IdADom, FolderF>>, <<IdADom, FolderInbox>>, <<IdADom, FolderZeroSum>>,
     <<IdADom, FolderSuffixed>>, <<IdTrav, FolderInbox>>}

InitUid ==
    /\ cfg \in Configs
    /\ maildirs = {}
    /\ files = {}
    /\ deleted = [i \in Instances |-> {}]
    /\ nextKey = 1
    /\ procs = [p \in Procs |-> IdleProc]
    /\ pin = NoPath
    /\ pout = [kind |-> "uid", first |-> [a \in UidArgs |-> <<>>],
               last |-> [a \in UidArgs |-> <<>>], disk |-> <<>>,
               again |-> {}]

\* One call of UIDValidity: its result is kept as the last for these
\* arguments, and as the first when it is.  The first call of all keeps the
\* folders there were; again holds the arguments of the repeated calls that
\* found other folders.
UIDValidityCall(mailbox, folder) ==
    /\ pout' = [pout EXCEPT
                  !.first[<<mailbox, folder>>] =
                      IF @ = <<>> THEN <<UIDValidity(mailbox, folder)>>
                      ELSE @,
                  !.last[<<mailbox, folder>>] =
                      <<UIDValidity(mailbox, folder)>>,
                  !.disk = IF @ = <<>> THEN <<maildirs>> ELSE @,
                  !.again =
                      IF /\ pout.first[<<mailbox, folder>>] # <<>>
                         /\ pout.disk # <<maildirs>>
                      THEN @ \cup {<<mailbox, folder>>}
                      ELSE @]
    /\ UNCHANGED <<cfg, maildirs, files, deleted, nextKey, procs, pin>>

NextUid ==
    \/ \E a \in UidArgs : UIDValidityCall(a[1], a[2])
    \/ \E i \in FolderInstances, m \in OwnerIds, f \in ReadFolders :
            CreateFolderCall(i, m, f)
    \/ \E i \in FolderInstances, m \in OwnerIds, f, g \in ReadFolders :
            RenameFolderCall(i, m, f, g)
    \/ \E i \in FolderInstances, m \in OwnerIds, f \in ReadFolders :
            DeleteFolderCall(i, m, f)

SpecUid == InitUid /\ [][NextUid]_vars

-----------------------------------------------------------------------------
(* The paths of the operations that build a file name from a message UID:   *)
(* one call of SetFlagsInFolder or CopyMessage with a uid that is not a key  *)
(* of cur/.                                                                 *)

\* A key as deliveries make them, and names that climb three and four
\* directories.
UidKey == <<"1">>
UidUp3 == <<".", ".", "/", ".", ".", "/", ".", ".", "/", "x">>
UidUp4 == <<".", ".", "/">> \o UidUp3
UidArgsOfPaths == {UidKey, UidUp3, UidUp4}
InfoArgs == {<<"2", ",">>, <<"2", ",", "S">>}

InitUidPaths ==
    /\ cfg \in Configs
    /\ maildirs = {}
    /\ files = {}
    /\ deleted = [i \in Instances |-> {}]
    /\ nextKey = 1
    /\ procs = [p \in Procs |-> IdleProc]
    /\ pin \in [mb : ReaderIds, folder : {FolderF, FolderInbox, FolderDots},
                 uid : UidArgsOfPaths, present : BOOLEAN]
    /\ pout = NoPath

SetFlagsInFolderPathsCall(info) ==
    /\ pout = NoPath
    /\ pout' = [kind |-> "touched", op |-> "SetFlagsInFolder",
                err |-> SetFlagsInFolderPaths(pin.mb, pin.folder, pin.uid,
                                              info, pin.present).err,
                touched |-> SetFlagsInFolderPaths(pin.mb, pin.folder, pin.uid,
                                                  info, pin.present).touched]
    /\ UNCHANGED <<cfg, maildirs, files, deleted, nextKey, procs, pin>>

CopyMessagePathsCall(destFolder) ==
    /\ pout = NoPath
    /\ pout' = [kind |-> "touched", op |-> "CopyMessage",
                err |-> CopyMessagePaths(pin.mb, pin.folder, pin.uid,
                                         destFolder, pin.present).err,
                touched |-> CopyMessagePaths(pin.mb, pin.folder, pin.uid,
                                             destFolder, pin.present).touched]
    /\ UNCHANGED <<cfg, maildirs, files, deleted, nextKey, procs, pin>>

NextUidPaths ==
    \/ \E info \in InfoArgs : SetFlagsInFolderPathsCall(info)
    \/ \E g \in {FolderG, FolderInbox} : CopyMessagePathsCall(g)

SpecUidPaths == InitUidPaths /\ [][NextUidPaths]_vars

-----------------------------------------------------------------------------
(* One mailbox under two identifiers: deliveries to a@d, and listings,      *)
(* soft-deletions and expunges under a and under a@d, which the path        *)
(* template {localpart} resolves to one directory.                          *)

AliasIds == {IdA, IdADom}

NextAlias ==
    \/ \E i \in Instances, d \in Msgs : DeliverWhole(i, <<IdADom>>, d)
    \/ \E i \in Instances, m \in AliasIds : ListCall(i, m)
    \/ \E i \in Instances, m \in AliasIds, u \in IssuedKeys :
            DeleteCall(i, m, u)
    \/ \E p \in ExpungeProcs, i \in Instances, m \in AliasIds :
            ExpungeCall(p, i, m)
    \/ \E p \in ExpungeProcs : ExpungeRemove(p)

SpecAlias == Init /\ [][NextAlias]_vars

-----------------------------------------------------------------------------
(* The folder operations called with the folder name INBOX, against List    *)
(* of the mailbox.                                                          *)

NextInbox ==
    \/ \E p \in AppendProcs, i \in FolderInstances, m \in OwnerIds,
          d \in Msgs, fl \in FlagLists :
            AppendToFolderCall(p, i, m, FolderInbox, d, fl)
    \/ \E p \in AppendProcs : AppendToFolderMove(p)
    \/ \E p \in AppendProcs : DeliverReturn(p)
    \/ \E i \in FolderInstances, m \in OwnerIds : ListCall(i, m)
    \/ \E i \in FolderInstances, m \in OwnerIds :
            ListInFolderCall(i, m, FolderInbox)
    \/ \E i \in FolderInstances, m \in OwnerIds, u \in IssuedKeys :
            DeleteInFolderCall(i, m, FolderInbox, u)
    \/ \E p \in FolderExpungeProcs, i \in FolderInstances, m \in OwnerIds :
            ExpungeFolderCall(p, i, m, FolderInbox)
    \/ \E p \in FolderExpungeProcs : ExpungeRemove(p)

SpecInbox == InitFolders /\ [][NextInbox]_vars

-----------------------------------------------------------------------------
(* Path resolution alone: one call of mailboxPath or folderPath for every   *)
(* configuration, mailbox identifier and folder name.                       *)

InitPath ==
    /\ cfg \in AllConfigs
    /\ maildirs = {}
    /\ files = {}
    /\ deleted = [i \in Instances |-> {}]
    /\ nextKey = 1
    /\ procs = [p \in Procs |-> IdleProc]
    /\ pin \in [mb : AllIds, folder : AllFolders]
    /\ pout = NoPath

mailboxPathCall ==
    /\ pout = NoPath
    /\ pout' = [kind |-> "mailbox", err |-> mailboxPath(pin.mb).err,
                path |-> mailboxPath(pin.mb).path]
    /\ UNCHANGED <<cfg, maildirs, files, deleted, nextKey, procs, pin>>

folderPathCall ==
    /\ pout = NoPath
    /\ pout' = [kind |-> "folder", err |-> folderPath(pin.mb, pin.folder).err,
                path |-> folderPath(pin.mb, pin.folder).path]
    /\ UNCHANGED <<cfg, maildirs, files, deleted, nextKey, procs, pin>>

NextPath == mailboxPathCall \/ folderPathCall

SpecPath == InitPath /\ [][NextPath]_vars

-----------------------------------------------------------------------------
(* The folder name policy alone: one call of validateFolderName for every   *)
(* name of a set that has short names over a small alphabet, the reserved   *)
(* names in every letter case, and names at the length limit.               *)

\* The longest of the short names.
MaxShortLen == 2

NameAlphabet == {"a", "Z", "7", "-", "_", ".", "/", " ", "U+00E9"}
ShortNames == UNION {[1..n -> NameAlphabet] : n \in 0..MaxShortLen}

ReservedLetters == {"n", "e", "w", "c", "u", "r", "t", "m", "p",
                    "N", "E", "W", "C", "U", "R", "T", "M", "P"}
CasedReserved == {s \in [1..3 -> ReservedLetters] : ToLower(s) \in ReservedNames}
NearReserved == {<<"n", "e", "w", "s">>, <<"c", "u">>, <<"t", "m", "p", "-">>,
                 <<"a", ".", "b">>, <<"a", "/", "b">>, <<"a", ".", ".">>}

LongNames == {Fill(MaxFolderNameLen, "a"), Fill(MaxFolderNameLen + 1, "a"),
              Fill(MaxFolderNameLen, "_"),
              Fill(MaxFolderNameLen - 1, "a") \o <<"U+00E9">>,
              Fill(MaxFolderNameLen - 1, "a") \o <<".">>,
              Fill(MaxFolderNameLen - 1, "a") \o <<"Z">>,
              <<".">> \o Fill(MaxFolderNameLen - 1, "a")}

Names == ShortNames \cup CasedReserved \cup NearReserved \cup LongNames

InitName ==
    /\ cfg = [template |-> TplNone, subdir |-> SubdirNone]
    /\ maildirs = {}
    /\ files = {}
    /\ deleted = [i \in Instances |-> {}]
    /\ nextKey = 1
    /\ procs = [p \in Procs |-> IdleProc]
    /\ pin \in Names
    /\ pout = NoPath

validateFolderNameCall ==
    /\ pout = NoPath
    /\ pout' = [kind |-> "name", err |-> validateFolderName(pin)]
    /\ UNCHANGED <<cfg, maildirs, files, deleted, nextKey, procs, pin>>

NextName == validateFolderNameCall

SpecName == InitName /\ [][NextName]_vars

-----------------------------------------------------------------------------
(* Claims checked under SpecDeliver *)

\* What a List of mailbox by instance i reports and leaves, and what a
\* Retrieve of uid returns once that List has run.
ListedUIDs(i, mailbox) == {m.UID : m \in List(i, mailbox).res.msgs}

RetrieveAfterList(i, mailbox, uid) ==
    retrieveFromDir(List(i, mailbox).files, mailboxPath(mailbox).path, uid)

RetrieveAfterListInFolder(i, mailbox, folder, uid) ==
    retrieveFromDir(ListInFolder(i, mailbox, folder).files,
                    folderPath(mailbox, folder).path, uid)

\* A delivery that has staged its file and not yet closed or aborted it.
Writing(p) == procs[p].pc = "write"

\* C1: at every moment, whatever a delivery in flight has written so far and
\* whatever a failed or aborted delivery left behind, every message a List
\* or ListInFolder reports, through any instance, is a whole message (its
\* size and its retrieved content are those of a message handed to Deliver),
\* no Retrieve or RetrieveFromFolder returns anything else, and the file of
\* a delivery still being written is never reported.
C1_NoPartialMessage ==
    \A i \in Instances, m \in ReaderIds :
        /\ \A u \in Keys :
            /\ Retrieve(i, m, u).err = Nil => Retrieve(i, m, u).data \in Msgs
            /\ \A f \in FolderArgs :
                 RetrieveFromFolder(i, m, f, u).err = Nil
                    => RetrieveFromFolder(i, m, f, u).data \in Msgs
        /\ \A msg \in List(i, m).res.msgs :
            /\ RetrieveAfterList(i, m, msg.UID).err = Nil
            /\ RetrieveAfterList(i, m, msg.UID).data \in Msgs
            /\ msg.Size = Len(RetrieveAfterList(i, m, msg.UID).data)
            /\ \A p \in DeliverProcs : Writing(p) => procs[p].key # msg.UID
        /\ \A f \in FolderArgs : \A msg \in ListInFolder(i, m, f).res.msgs :
            /\ RetrieveAfterListInFolder(i, m, f, msg.UID).err = Nil
            /\ RetrieveAfterListInFolder(i, m, f, msg.UID).data \in Msgs
            /\ \A p \in DeliverProcs : Writing(p) => procs[p].key # msg.UID

\* C1's case: a delivery has written the first byte of a two-byte message
\* into a mailbox that a List can read.
C1_Witness ==
    \E p \in DeliverProcs :
        /\ Writing(p)
        /\ procs[p].data = MsgOne
        /\ procs[p].off = 1
        /\ procs[p].dir = mailboxPath(IdADom).path
        /\ \E f \in files : f.key = procs[p].key /\ f.data = <<1>>

\* The step on which process p's delivery.Close links the staged file into
\* new/: Deliver has delivered procs[p].data to the recipient at the head.
ClosedOk(p) ==
    /\ procs[p].pc = "write"
    /\ procs'[p].pc # "write"
    /\ \E f \in files' :
         f.key = procs[p].key /\ f.dir = procs[p].dir /\ f.sub = "new"

\* C2: once Deliver has delivered M to mailbox X (a recipient without
\* +extension), a List of X through either instance reports a uid of size
\* Len(M) whose content after the List is exactly M; and in every state,
\* Retrieve through either instance of a message in cur/ of a mailbox,
\* not soft-deleted there, returns exactly the bytes of its file.
C2_RoundTrip ==
    /\ [][\A p \in DeliverProcs :
            (ClosedOk(p) /\ ParseRecipient(Head(procs[p].rcpts)).Extension = <<>>)
              => \A i \in Instances, X \in {Head(procs[p].rcpts)} :
                   \E msg \in (List(i, X).res.msgs)' :
                      /\ msg.UID = procs[p].key
                      /\ msg.Size = Len(procs[p].data)
                      /\ (RetrieveAfterList(i, X, msg.UID))'
                            = [err |-> Nil, data |-> procs[p].data]]_vars
    /\ [](\A i \in Instances, m \in ReaderIds, f \in files :
            (/\ mailboxPath(m).err = Nil
             /\ f.dir = mailboxPath(m).path
             /\ f.sub = "cur"
             /\ ~isDeleted(i, m, f.key))
              => Retrieve(i, m, f.key) = [err |-> Nil, data |-> f.data])

\* C2's case: the two-byte message delivered to a@d has been listed and sits
\* in cur/ of that mailbox, whole.
C2_Witness ==
    \E f \in files :
        /\ f.dir = mailboxPath(IdADom).path
        /\ f.sub = "cur"
        /\ f.data = MsgOne
        /\ \A p \in DeliverProcs : procs[p].pc = "idle"

\* An identifier with a ".." element between its separators.
HasDotDotSegment(id) ==
    \E k \in 1..Len(SplitSlash(id)) : SplitSlash(id)[k] = DotDot

\* path is base or a file below it, element by element.
AtOrBelow(path, base) ==
    \/ path = base
    \/ /\ Len(path) > Len(base)
       /\ SubSeq(path, 1, Len(base)) = base
       /\ path[Len(base) + 1] = "/"

\* The mailbox identifiers whose directory, under configuration c, is not
\* the base directory or below it.
OutsideTable ==
    [c \in AllConfigs |->
        [m \in AllIds |->
            ~AtOrBelow(Clean(MailboxCandidate(c, expandMailboxOf(c, m))),
                       Clean(BasePath))]]

ResolvesOutside(mailbox) == OutsideTable[cfg][mailbox]

\* Every call of instance i that resolves mailbox fails and leaves the disk
\* as it is.
RejectsMailbox(i, mailbox) ==
    /\ List(i, mailbox).res.err # Nil
    /\ List(i, mailbox).files = files
    /\ List(i, mailbox).maildirs = maildirs
    /\ Stat(i, mailbox).res.err # Nil
    /\ Stat(i, mailbox).files = files
    /\ Stat(i, mailbox).maildirs = maildirs
    /\ \A u \in Keys : Retrieve(i, mailbox, u).err # Nil
    /\ expungeRest("Expunge", mailbox, <<>>, Keys).res.err # Nil
    /\ expungeRest("Expunge", mailbox, <<>>, Keys).files = files
    /\ CreateFolder(mailbox, FolderF).res.err # Nil
    /\ CreateFolder(mailbox, FolderF).maildirs = maildirs
    /\ DeleteFolder(i, mailbox, FolderF).res.err # Nil
    /\ DeleteFolder(i, mailbox, FolderF).files = files
    /\ DeleteFolder(i, mailbox, FolderF).maildirs = maildirs
    /\ ListInFolder(i, mailbox, FolderF).res.err # Nil
    /\ ListInFolder(i, mailbox, FolderF).files = files
    /\ \A u \in Keys : RetrieveFromFolder(i, mailbox, FolderF, u).err # Nil
    /\ expungeRest("ExpungeFolder", mailbox, FolderF, Keys).res.err # Nil
    /\ expungeRest("ExpungeFolder", mailbox, FolderF, Keys).files = files

\* Every folder call of instance i given folder fails and leaves the disk
\* and the deletion table as they are.
RejectsFolder(i, mailbox, folder) ==
    /\ CreateFolder(mailbox, folder).res.err # Nil
    /\ CreateFolder(mailbox, folder).maildirs = maildirs
    /\ DeleteFolder(i, mailbox, folder).res.err # Nil
    /\ DeleteFolder(i, mailbox, folder).files = files
    /\ DeleteFolder(i, mailbox, folder).maildirs = maildirs
    /\ ListInFolder(i, mailbox, folder).res.err # Nil
    /\ ListInFolder(i, mailbox, folder).files = files
    /\ StatFolder(i, mailbox, folder).res.err # Nil
    /\ StatFolder(i, mailbox, folder).files = files
    /\ \A u \in Keys :
        /\ RetrieveFromFolder(i, mailbox, folder, u).err # Nil
        /\ DeleteInFolder(i, mailbox, folder, u).res.err # Nil
        /\ DeleteInFolder(i, mailbox, folder, u).deleted = deleted[i]
    /\ expungeRest("ExpungeFolder", mailbox, folder, Keys).res.err # Nil
    /\ expungeRest("ExpungeFolder", mailbox, folder, Keys).files = files

\* A whole Deliver to the one recipient fails and leaves the disk as it is.
RejectsDelivery(recipient) ==
    \A d \in Msgs :
        /\ Deliver(<<recipient>>, d).err # Nil
        /\ Deliver(<<recipient>>, d).files = files
        /\ Deliver(<<recipient>>, d).maildirs = maildirs

ExpectedDir(recipient) ==
    IF /\ ParseRecipient(recipient).Extension # <<>>
       /\ folderPath(ParseRecipient(recipient).Address,
                     ParseRecipient(recipient).Extension).err = Nil
       /\ folderPath(ParseRecipient(recipient).Address,
                     ParseRecipient(recipient).Extension).path \in maildirs
    THEN folderPath(ParseRecipient(recipient).Address,
                    ParseRecipient(recipient).Extension).path
    ELSE mailboxPath(ParseRecipient(recipient).Address).path

\* The message file process p's delivery makes visible.
DeliveredFile(p) ==
    [dir |-> procs[p].dir, sub |-> "new", key |-> procs[p].key, flags |-> {},
     data |-> procs[p].data]

\* C10: a Deliver to user+ext@domain stages its one file in folder ext of
\* user@domain if that folder exists when the recipient is resolved, and in
\* the inbox of user@domain otherwise (folder missing or ext not a valid
\* name); when the delivery closes, exactly that one message is added to
\* what readers can see, there and nowhere else.
C10_Subaddress ==
    [][\A p \in DeliverProcs :
         procs[p].rcpts # <<>> =>
           \A r \in {Head(procs[p].rcpts)} :
             ParseRecipient(r).Extension # <<>> =>
               /\ (procs[p].pc = "rcpt" /\ procs'[p].pc = "write")
                    => /\ procs'[p].dir = ExpectedDir(r)
                       /\ files' = files \cup
                            {[dir |-> ExpectedDir(r), sub |-> "tmp",
                              key |-> procs'[p].key, flags |-> {},
                              data |-> <<>>]}
                       /\ \A f \in files : f.key # procs'[p].key
               /\ ClosedOk(p)
                    => /\ DeliveredFile(p) \notin Visible(files)
                       /\ Visible(files') = Visible(files) \cup {DeliveredFile(p)}
                       /\ \A f \in files' :
                            f.key = procs[p].key => f = DeliveredFile(p)]_vars

\* C10's case: a delivery to a+f@d is writing into the existing folder f of
\* a@d while an earlier delivery to a+../e@d sits in the inbox of a@d.
C10_Witness ==
    \E p \in DeliverProcs :
        /\ Writing(p)
        /\ Head(procs[p].rcpts) = IdAExt
        /\ procs[p].dir = folderPath(IdADom, FolderF).path
        /\ \E f \in Visible(files) : f.dir = mailboxPath(IdADom).path

\* The folders that exist, as ListFolders finds them: the maildirs at the
\* path of a folder of some mailbox.
ExistingFolders(md) ==
    {q \in [mb : AllIds, folder : AllFolders] :
        /\ folderPath(q.mb, q.folder).err = Nil
        /\ HasMaildir(md, folderPath(q.mb, q.folder).path)}

\* A step of process p's Deliver.
DeliverStep(p) == procs[p].op = "Deliver" /\ procs'[p] # procs[p]

\* C11 as stated: no step of a Deliver changes the set of existing folders
\* of any mailbox.
C11_AsStated ==
    [][\A p \in DeliverProcs :
          DeliverStep(p) => ExistingFolders(maildirs') = ExistingFolders(maildirs)
      ]_vars

\* C11 as amended: a step of a Deliver removes no maildir and creates at
\* most one, the inbox of the base address (user@domain) of the recipient
\* it is resolving; for a recipient with a +extension that is neither the
\* folder the extension names nor the mailbox of the literal address.
C11_OnlyInboxCreated ==
    [][\A p \in DeliverProcs :
          DeliverStep(p) =>
            /\ maildirs \subseteq maildirs'
            /\ maildirs' # maildirs =>
                 /\ procs[p].pc = "rcpt"
                 /\ \A r \in {Head(procs[p].rcpts)} :
                      \A a \in {ParseRecipient(r).Address},
                         e \in {ParseRecipient(r).Extension} :
                        /\ maildirs' = maildirs \cup {mailboxPath(a).path}
                        /\ e # <<>> =>
                             /\ a # r
                             /\ mailboxPath(r).path \notin maildirs' \ maildirs
                             /\ folderPath(a, e).path \notin maildirs' \ maildirs
      ]_vars

\* C11's case: a delivery to a+f@d, the folder f of a@d missing, has created
\* the inbox of a@d and is writing into it.
C11_Witness ==
    \E p \in DeliverProcs :
        /\ Writing(p)
        /\ Head(procs[p].rcpts) = IdAExt
        /\ procs[p].dir = mailboxPath(IdADom).path
        /\ ExistingFolders(maildirs) = {}
        /\ maildirs = {mailboxPath(IdADom).path}

\* A Deliver call given at least one recipient has returned to its caller.
DeliverReturned(p) ==
    /\ procs[p].pc = "ret"
    /\ procs[p].op = "Deliver"
    /\ procs[p].ret # ErrNoRecipients

\* The step on which process p's Deliver is done with the recipient at the
\* head of its list, stored or failed.
RecipientHandled(p) ==
    /\ procs[p].op = "Deliver"
    /\ procs[p].pc \in {"rcpt", "write"}
    /\ procs'[p].rcpts = Tail(procs[p].rcpts)

\* C12: a Deliver given recipients returns nil exactly when it stored at
\* least one copy, and otherwise returns the error of the last recipient
\* that failed.  Every recipient is either stored (its file linked into
\* new/, the count raised, the error kept) or failed (no file of it left
\* for readers, the count kept, an error recorded), and after either the
\* call goes on to the next recipient, returning only after the last.
C12_PartialFailure ==
    /\ [](\A p \in DeliverProcs :
            DeliverReturned(p) =>
                /\ procs[p].ret = Nil <=> procs[p].delivered >= 1
                /\ procs[p].ret # Nil =>
                       procs[p].ret = procs[p].lastErr)
    /\ [][\A p \in DeliverProcs :
            /\ (procs[p].pc = "idle" /\ procs'[p].pc = "rcpt")
                  => procs'[p].delivered = 0 /\ procs'[p].lastErr = Nil
            /\ RecipientHandled(p) =>
                  /\ procs'[p].pc =
                        IF Tail(procs[p].rcpts) = <<>> THEN "ret" ELSE "rcpt"
                  /\ IF ClosedOk(p)
                     THEN /\ procs'[p].delivered = procs[p].delivered + 1
                          /\ procs'[p].lastErr = procs[p].lastErr
                     ELSE /\ procs'[p].delivered = procs[p].delivered
                          /\ procs'[p].lastErr # Nil
                          /\ Visible(files') \subseteq Visible(files)
            /\ (procs[p].pc \in {"rcpt", "write"} /\ ~RecipientHandled(p))
                  => /\ procs'[p].delivered = procs[p].delivered
                     /\ procs'[p].lastErr = procs[p].lastErr
                     /\ procs'[p].pc # "ret"]_vars

\* C12's case: a Deliver to ../x and a@d has returned nil with the traversal
\* error of its first recipient recorded and the copy of a@d in its inbox.
C12_Witness ==
    \E p \in DeliverProcs :
        /\ DeliverReturned(p)
        /\ procs[p].ret = Nil
        /\ procs[p].lastErr = ErrPathTraversal
        /\ procs[p].delivered = 1
        /\ \E f \in Visible(files) :
              f.dir = mailboxPath(IdADom).path /\ f.data = procs[p].data

\* The mailbox resolves inside the base directory and has no maildir yet.
NeverSeen(mailbox) ==
    /\ mailboxPath(mailbox).err = Nil
    /\ ~HasMaildir(maildirs, mailboxPath(mailbox).path)

\* The outcome o of a List or Stat made the maildir of the mailbox and
\* nothing else, and touched no file.
MadeEmpty(mailbox, o) ==
    /\ o.maildirs = maildirs \cup {mailboxPath(mailbox).path}
    /\ o.files = files
    /\ InSub(o.files, mailboxPath(mailbox).path, "cur") = {}
    /\ InSub(o.files, mailboxPath(mailbox).path, "new") = {}

-----------------------------------------------------------------------------
(* Claims checked under SpecExpunge *)

\* The uids instance i holds marked under key.
Marked(i, key) == {d[2] : d \in {e \in deleted[i] : e[1] = key}}

\* The uids of the message files in new/ and cur/ of a maildir.
StoredUIDs(path) == {f.key : f \in {g \in Visible(files) : g.dir = path}}

\* C3: in every state, for every uid instance i holds marked for a mailbox
\* (by Delete) or for a folder (by DeleteInFolder): List, or ListInFolder,
\* by i does not report it, Stat, or StatFolder, counts exactly the stored
\* messages that are not marked, and Retrieve, or RetrieveFromFolder, of it
\* fails with ErrMessageDeleted.
C3_DeletedHidden ==
    \A i \in Instances, m \in OwnerIds :
        /\ \A u \in Marked(i, m) :
            /\ u \notin ListedUIDs(i, m)
            /\ Stat(i, m).res.count
                 = Cardinality(StoredUIDs(mailboxPath(m).path) \ Marked(i, m))
            /\ Retrieve(i, m, u).err = ErrMessageDeleted
        /\ \A u \in Marked(i, folderDeletionKey(m, FolderF)) :
            /\ u \notin {x.UID : x \in ListInFolder(i, m, FolderF).res.msgs}
            /\ StatFolder(i, m, FolderF).res.count
                 = IF HasMaildir(maildirs, folderPath(m, FolderF).path)
                   THEN Cardinality(
                            StoredUIDs(folderPath(m, FolderF).path)
                              \ Marked(i, folderDeletionKey(m, FolderF)))
                   ELSE 0
            /\ RetrieveFromFolder(i, m, FolderF, u).err = ErrMessageDeleted

\* C3's case: one instance has marked a message that sits in cur/ of the
\* inbox and a message that sits in cur/ of folder f.
C3_Witness ==
    \E i \in Instances :
        /\ \E f \in files :
            /\ f.sub = "cur"
            /\ f.dir = mailboxPath(IdADom).path
            /\ f.key \in Marked(i, IdADom)
        /\ \E g \in files :
            /\ g.sub = "cur"
            /\ g.dir = folderPath(IdADom, FolderF).path
            /\ g.key \in Marked(i, folderDeletionKey(IdADom, FolderF))

\* A step that adds a mark to the table of instance a: a Delete or a
\* DeleteInFolder of a returning.
Marks(a) == deleted[a] \subseteq deleted'[a] /\ deleted'[a] # deleted[a]

\* C4: a step on which instance a records a soft-deletion leaves the disk
\* and every other instance's table as they are, and every other instance
\* lists and retrieves, in mailbox and folder, exactly what it did before;
\* and an instance that has just been opened hides nothing: it has no mark
\* and lists every message stored in the mailbox.
C4_DeleteIsLocal ==
    [][/\ \A a \in Instances :
            Marks(a) =>
              /\ files' = files
              /\ maildirs' = maildirs
              /\ \A b \in Instances \ {a} :
                   /\ deleted'[b] = deleted[b]
                   /\ \A m \in OwnerIds :
                        /\ (List(b, m))' = List(b, m)
                        /\ (ListInFolder(b, m, FolderF))'
                              = ListInFolder(b, m, FolderF)
                        /\ \A u \in Keys :
                             /\ (Retrieve(b, m, u))' = Retrieve(b, m, u)
                             /\ (RetrieveFromFolder(b, m, FolderF, u))'
                                   = RetrieveFromFolder(b, m, FolderF, u)
       /\ \A i \in Instances :
            NewStoreCall(i) =>
              /\ deleted'[i] = {}
              /\ \A m \in OwnerIds :
                   (ListedUIDs(i, m))' = (StoredUIDs(mailboxPath(m).path))']_vars

\* C4's case: one instance has marked a message of cur/ that the other
\* instance has not marked and lists.
C4_Witness ==
    \E a \in Instances, b \in Instances, f \in files :
        /\ a # b
        /\ f.sub = "cur"
        /\ f.dir = mailboxPath(IdADom).path
        /\ f.key \in Marked(a, IdADom)
        /\ f.key \notin Marked(b, IdADom)
        /\ f.key \in ListedUIDs(b, IdADom)

\* The step on which the expunge of process p returns.
ExpungeReturning(p) == procs[p].pc = "remove" /\ procs'[p].pc = "idle"

\* What the expunge of process p returns, and the maildir it works on.
ExpungeResult(p) ==
    expungeRest(procs[p].op, procs[p].mb, procs[p].folder, procs[p].taken).res

ExpungeDir(p) ==
    IF procs[p].op = "Expunge" THEN mailboxPath(procs[p].mb).path
    ELSE folderPath(procs[p].mb, procs[p].folder).path

\* C5 as stated: when an Expunge (or ExpungeFolder) that took the marks of
\* earlier Deletes (or DeleteInFolders) of its instance returns without
\* error, no file of any uid it took is left in its mailbox (or folder).
C5_ExpungedGone ==
    [][\A p \in ExpungeProcs :
          (ExpungeReturning(p) /\ ExpungeResult(p).err = Nil)
            => \A u \in procs[p].taken :
                 \A f \in files' : ~(f.key = u /\ f.dir = ExpungeDir(p))]_vars

\* File f of this state is still stored after the step, bytes unchanged.
Kept(f) ==
    \E g \in files' : g.key = f.key /\ g.dir = f.dir /\ g.data = f.data

\* The step is the return of an expunge that took f's uid from the marks of
\* its instance for the maildir f is in.
RemovedByExpunge(f) ==
    \E p \in ExpungeProcs :
        /\ ExpungeReturning(p)
        /\ f.key \in procs[p].taken
        /\ f.dir = ExpungeDir(p)

\* The step removes the maildir f is in.
FolderRemoved(f) == f.dir \in maildirs /\ f.dir \notin maildirs'

\* C6 as stated: on every step, every stored message stays stored with its
\* bytes unchanged unless the step is the return of an Expunge that took
\* its uid from the marks of its mailbox or folder; and a step that records
\* a soft-deletion changes no file.
C6_AsStated ==
    [][/\ \A f \in files : Kept(f) \/ RemovedByExpunge(f)
       /\ \A a \in Instances : Marks(a) => files' = files]_vars

\* C6 as amended: on every step, every stored message stays stored with its
\* bytes unchanged unless the step is the return of an Expunge that took
\* its uid from the marks of its mailbox or folder, or the step is a
\* DeleteFolder removing the folder it is in; and a step that records a
\* soft-deletion changes no file.
C6_OnlyExpungeOrDeleteFolder ==
    [][/\ \A f \in files : Kept(f) \/ RemovedByExpunge(f) \/ FolderRemoved(f)
       /\ \A a \in Instances : Marks(a) => files' = files]_vars

\* C6's case: an expunge is about to remove a marked message of cur/ while
\* another message of the same maildir, not marked, sits next to it.
C6_Witness ==
    \E p \in ExpungeProcs, f \in files, g \in files :
        /\ procs[p].pc = "remove"
        /\ f.sub = "cur" /\ g.sub = "cur"
        /\ f.dir = ExpungeDir(p) /\ g.dir = ExpungeDir(p)
        /\ f.key \in procs[p].taken
        /\ g.key \notin procs[p].taken

\* The step on which the expunge of process p takes its set.
ExpungeTaking(p) == procs[p].pc = "idle" /\ procs'[p].pc = "remove"

\* C7: the step on which an expunge pass takes its set hands it exactly the
\* uids its instance held marked under the pass's key, removes exactly
\* those marks from that instance's table and touches no other pass; a
\* step that records a mark leaves the sets of the passes in flight as they
\* are and keeps every mark already in the table.
C7_MarksHandedOnce ==
    [][/\ \A p \in ExpungeProcs :
            ExpungeTaking(p) =>
              \A i \in {procs'[p].inst}, k \in {procs'[p].dkey} :
                /\ procs'[p].taken = Marked(i, k)
                /\ procs'[p].taken # {}
                /\ deleted'[i] = {d \in deleted[i] : d[1] # k}
                /\ \A j \in Instances \ {i} : deleted'[j] = deleted[j]
                /\ \A q \in Procs \ {p} : procs'[q] = procs[q]
       /\ \A a \in Instances : Marks(a) => procs' = procs]_vars

\* C7's case: while a pass of an instance holds the set it took for a key,
\* the instance's table holds a mark recorded for the same key afterwards.
C7_Witness ==
    \E p \in ExpungeProcs, u \in Keys :
        /\ procs[p].pc = "remove"
        /\ u \notin procs[p].taken
        /\ <<procs[p].dkey, u>> \in deleted[procs[p].inst]

\* The message files in new/ and cur/ of the inbox of mailbox.
CopiesOf(fs, mailbox) ==
    {f \in Visible(fs) : f.dir = mailboxPath(mailbox).path}

\* The outcome o of a Deliver of d to a@d and c@d: success, and one new file
\* in each inbox, each under its own name and holding d.
StoredTwoCopies(o, d) ==
    /\ o.err = Nil
    /\ \E fa \in CopiesOf(o.files, IdADom), fc \in CopiesOf(o.files, IdC) :
          /\ fa.key = nextKey /\ fc.key = nextKey + 1
          /\ fa.data = d /\ fc.data = d
          /\ fa.dir # fc.dir
          /\ o.files = files \cup {fa, fc}
          /\ fa \notin files /\ fc \notin files

\* Through instance i, the file f of mailbox's inbox is listed unless i has
\* it soft-deleted, and retrieving it after the listing returns its bytes.
ListedAndRetrievable(i, mailbox, f) ==
    ~isDeleted(i, mailbox, f.key) =>
        /\ f.key \in ListedUIDs(i, mailbox)
        /\ RetrieveAfterList(i, mailbox, f.key) = [err |-> Nil, data |-> f.data]

\* C14: in every state, one Deliver to a@d and c@d stores one file in each
\* of the two inboxes, each under its own name and with the whole content,
\* and every copy in either inbox is listed and retrievable with its
\* content through either instance; every step of a Delete or an Expunge
\* on a@d leaves the files of c@d, what List of c@d reports and what
\* Retrieve returns for them as they were.
C14_IndependentCopies ==
    /\ [](/\ nextKey < MaxKeys =>
               \A d \in Msgs : StoredTwoCopies(Deliver(<<IdADom, IdC>>, d), d)
          /\ \A i \in Instances, m \in {IdADom, IdC} :
               \A f \in CopiesOf(files, m) : ListedAndRetrievable(i, m, f))
    /\ [][(deleted' # deleted \/ procs' # procs) =>
            /\ CopiesOf(files', IdC) = CopiesOf(files, IdC)
            /\ \A i \in Instances :
                  /\ (List(i, IdC).res)' = List(i, IdC).res
                  /\ \A u \in Keys :
                        (Retrieve(i, IdC, u))' = Retrieve(i, IdC, u)
          ]_vars

\* C14's case: of the two copies of one Deliver to a@d and c@d, that of a@d
\* has been listed, deleted and expunged and is gone from the disk; that of
\* c@d is in its inbox.
C14_Witness ==
    /\ nextKey = 3
    /\ CopiesOf(files, IdADom) = {}
    /\ \E f \in CopiesOf(files, IdC) : f.key = 2
    /\ \A p \in Procs : procs[p].pc = "idle"
    /\ \A i \in Instances : deleted[i] = {}

\* The keys of the files in new/ of the mailbox.
NewKeys(fs, mailbox) ==
    {f.key : f \in InSub(fs, mailboxPath(mailbox).path, "new")}

\* What a List by instance j reports when the files are fs.
ListedFrom(j, fs, mailbox) ==
    listDir(j, fs, mailboxPath(mailbox).path, mailbox).msgs

\* The List of instance i reports as Recent the messages of new/ and no
\* others, leaves nothing in new/, and a List of any instance after it
\* reports nothing as Recent.
RecentOnce(i, mailbox, o) ==
    /\ NewKeys(o.files, mailbox) = {}
    /\ \A m \in o.res.msgs : m.Recent <=> m.UID \in NewKeys(files, mailbox)
    /\ \A k \in NewKeys(files, mailbox) :
           ~isDeleted(i, mailbox, k) => \E m \in o.res.msgs : m.UID = k
    /\ \A j \in Instances : \A m \in ListedFrom(j, o.files, mailbox) : ~m.Recent

\* A message file of cur/ is not in new/ after the step.
StaysSeen(f) ==
    \A g \in files' : (g.dir = f.dir /\ g.key = f.key) => g.sub # "new"

NoneMarked(table, key) == \A d \in table : d[1] # key

\* C24: in every state, an Expunge of a mailbox and an ExpungeFolder of a
\* folder leave no mark of their instance under that mailbox or folder,
\* whatever they find to remove and whatever they return; step by step, the
\* instance holds no mark under the key right after the pass has taken its
\* set, and the return of the pass changes no mark, so a mark found once the
\* pass has returned was recorded after the set was taken.
C24_ExpungeClears ==
    /\ [](\A i \in Instances, m \in OwnerIds :
              /\ NoneMarked(Expunge(i, m).deleted, m)
              /\ NoneMarked(ExpungeFolder(i, m, FolderF).deleted,
                            folderDeletionKey(m, FolderF)))
    /\ [][\A p \in ExpungeProcs :
              /\ ExpungeTaking(p) =>
                     NoneMarked(deleted'[procs'[p].inst], procs'[p].dkey)
              /\ ExpungeReturning(p) => deleted' = deleted]_vars

\* A pass has taken marks for which its mailbox holds no message, and its
\* instance holds no mark under the key.
C24_Witness ==
    \E p \in ExpungeProcs :
        /\ procs[p].pc = "remove"
        /\ procs[p].op = "Expunge"
        /\ \A f \in files : ~(f.dir = ExpungeDir(p) /\ f.key \in procs[p].taken)
        /\ NoneMarked(deleted[procs[p].inst], procs[p].dkey)

-----------------------------------------------------------------------------
(* Claims checked under SpecConcurrent *)

\* The file process p's delivery has staged or linked, wherever it is now.
FileOf(fs, p) == {f \in fs : f.dir = procs[p].dir /\ f.key = procs[p].key}

-----------------------------------------------------------------------------
(* Claims checked under SpecFolders.                                        *)

\* The path of a folder whose name is valid.
PathOf(mailbox, folder) == folderPath(mailbox, folder).path

\* This step renamed folder oldName of mailbox to newName.
Renamed(mailbox, oldName, newName) ==
    /\ HasMaildir(maildirs, PathOf(mailbox, oldName))
    /\ ~HasMaildir(maildirs, PathOf(mailbox, newName))
    /\ ~HasMaildir(maildirs', PathOf(mailbox, oldName))
    /\ HasMaildir(maildirs', PathOf(mailbox, newName))

\* What a listing of the folder reports, as uids.
ListedInFolder(i, mailbox, folder) ==
    {m.UID : m \in ListInFolder(i, mailbox, folder).res.msgs}

\* C16: when a step renames folder f of a mailbox to g, then after the step
\* no instance holds a soft-deletion under f or under g, and a listing of g
\* reports every message stored in g: the marks made before the rename
\* apply to no folder.
C16_RenameDropsMarks ==
    [][\A m \in OwnerIds, f \in ReadFolders, g \in ReadFolders :
          Renamed(m, f, g) =>
              \A i \in FolderInstances :
                  /\ (Marked(i, folderDeletionKey(m, f)))' = {}
                  /\ (Marked(i, folderDeletionKey(m, g)))' = {}
                  /\ (ListedInFolder(i, m, g))' = (StoredUIDs(PathOf(m, g)))'
      ]_vars

\* Both folders are there, a message is stored in f and marked in f.
BothFoldersMarked(i, m, f, g) ==
    /\ HasMaildir(maildirs, PathOf(m, f))
    /\ HasMaildir(maildirs, PathOf(m, g))
    /\ Marked(i, folderDeletionKey(m, f)) \cap StoredUIDs(PathOf(m, f)) # {}

\* Nothing of the outcome o differs from the store as it is.
NothingChanged(i, o) ==
    /\ o.files = files
    /\ o.maildirs = maildirs
    /\ o.deleted = deleted[i]

InvalidNames == {FolderDots, FolderSlash, FolderHid, FolderNEW, <<>>}

\* The outcome o of a call is the invalid-folder-name error and the disk as
\* it was.
RefusedUntouched(err, md, fs) ==
    /\ err = ErrInvalidFolderName
    /\ md = maildirs
    /\ fs = files

\* C18: in every state, each folder operation called with an invalid folder
\* name returns ErrInvalidFolderName and leaves the directories and the
\* message files as they are, the parent mailbox included.
C18_InvalidNameTouchesNothing ==
    \A i \in FolderInstances, m \in OwnerIds, x \in InvalidNames :
        /\ RefusedUntouched(CreateFolder(m, x).res.err,
                            CreateFolder(m, x).maildirs, files)
        /\ RefusedUntouched(DeleteFolder(i, m, x).res.err,
                            DeleteFolder(i, m, x).maildirs,
                            DeleteFolder(i, m, x).files)
        /\ RefusedUntouched(RenameFolder(i, m, x, FolderG).res.err,
                            RenameFolder(i, m, x, FolderG).maildirs,
                            RenameFolder(i, m, x, FolderG).files)
        /\ RefusedUntouched(RenameFolder(i, m, FolderF, x).res.err,
                            RenameFolder(i, m, FolderF, x).maildirs,
                            RenameFolder(i, m, FolderF, x).files)
        /\ RefusedUntouched(ListInFolder(i, m, x).res.err, maildirs,
                            ListInFolder(i, m, x).files)
        /\ RefusedUntouched(DeleteInFolder(i, m, x, 1).res.err, maildirs,
                            files)
        /\ RefusedUntouched(ExpungeFolder(i, m, x).res.err, maildirs,
                            ExpungeFolder(i, m, x).files)
        /\ RefusedUntouched(DeliverToFolder(m, x, MsgTwo).err,
                            DeliverToFolder(m, x, MsgTwo).maildirs,
                            DeliverToFolder(m, x, MsgTwo).files)

\* The same without ExpungeFolder and DeliverToFolder.
C18_OtherOperations ==
    \A i \in FolderInstances, m \in OwnerIds, x \in InvalidNames :
        /\ RefusedUntouched(CreateFolder(m, x).res.err,
                            CreateFolder(m, x).maildirs, files)
        /\ RefusedUntouched(DeleteFolder(i, m, x).res.err,
                            DeleteFolder(i, m, x).maildirs,
                            DeleteFolder(i, m, x).files)
        /\ RefusedUntouched(RenameFolder(i, m, x, FolderG).res.err,
                            RenameFolder(i, m, x, FolderG).maildirs,
                            RenameFolder(i, m, x, FolderG).files)
        /\ RefusedUntouched(RenameFolder(i, m, FolderF, x).res.err,
                            RenameFolder(i, m, FolderF, x).maildirs,
                            RenameFolder(i, m, FolderF, x).files)
        /\ RefusedUntouched(ListInFolder(i, m, x).res.err, maildirs,
                            ListInFolder(i, m, x).files)
        /\ RefusedUntouched(DeleteInFolder(i, m, x, 1).res.err, maildirs,
                            files)

\* DeliverToFolder alone.
C18_DeliverToFolder ==
    \A m \in OwnerIds, x \in InvalidNames :
        RefusedUntouched(DeliverToFolder(m, x, MsgTwo).err,
                         DeliverToFolder(m, x, MsgTwo).maildirs,
                         DeliverToFolder(m, x, MsgTwo).files)

\* The call of goroutine p is an AppendToFolder that has returned nil.
Appended(q) == q.op = "AppendToFolder" /\ q.pc = "ret" /\ q.ret = Nil

\* The flags of a call, as a set.
FlagSet(flags) == {flags[k] : k \in 1..Len(flags)}

\* The next listing of the folder reports the returned uid with the caller's
\* flags and not recent, and the uid retrieves the appended bytes.
AppendedAsAsked(q) ==
    /\ \E m \in ListInFolder(q.inst, q.mb, q.folder).res.msgs :
           /\ m.UID = q.uid
           /\ m.Flags = FlagSet(q.flags)
           /\ ~m.Recent
    /\ RetrieveFromFolder(q.inst, q.mb, q.folder, q.uid).err = Nil
    /\ RetrieveFromFolder(q.inst, q.mb, q.folder, q.uid).data = q.data

\* The returned uid is not marked deleted in the folder.
NotMarked(q) == ~isDeleted(q.inst, folderDeletionKey(q.mb, q.folder), q.uid)

\* C20: when a step is the return of an AppendToFolder with nil, then after
\* the step, unless the returned uid is marked deleted, a listing of the
\* folder reports that uid with exactly the caller's flags and without
\* Recent, and retrieving it yields the appended bytes.
C20_AppendedWithFlags ==
    [][\A p \in AppendProcs :
          (procs[p].pc = "append" /\ (Appended(procs[p]) /\ NotMarked(procs[p]))')
              => (AppendedAsAsked(procs[p]))'
      ]_vars

\* The same for calls whose flags are all among the five the store knows.
C20_KnownFlags ==
    [][\A p \in AppendProcs :
          (/\ procs[p].pc = "append"
           /\ FlagSet(procs[p].flags) \subseteq {r[1] : r \in FlagPairs}
           /\ (Appended(procs[p]) /\ NotMarked(procs[p]))')
              => (AppendedAsAsked(procs[p]))'
      ]_vars

\* The same for calls with known flags during which nothing else was
\* linked into new/ of the folder.
C20_KnownFlagsAlone ==
    [][\A p \in AppendProcs :
          (/\ procs[p].pc = "append"
           /\ FlagSet(procs[p].flags) \subseteq {r[1] : r \in FlagPairs}
           /\ maildirNewKeys(files, procs[p].dir) \ procs[p].taken
                  = {procs[p].key}
           /\ (Appended(procs[p]) /\ NotMarked(procs[p]))')
              => (AppendedAsAsked(procs[p]))'
      ]_vars

\* An Expunge of the inbox that has taken its marks and not yet returned.
Expunging(p) == procs[p].pc = "remove" /\ procs[p].op = "Expunge"

\* C34: while an Expunge is running, a message it is about to remove, soft-
\* deleted before it began, is not reported by a List and not returned by a
\* Retrieve of the same instance: it stays hidden until it is gone.
C34_HiddenUntilGone ==
    \A p \in ExpungeProcs :
        Expunging(p) =>
            \A u \in procs[p].taken :
                /\ u \notin ListedUIDs(procs[p].inst, procs[p].mb)
                /\ Retrieve(procs[p].inst, procs[p].mb, u).err # Nil

-----------------------------------------------------------------------------
(* Claims checked under SpecCopy.                                           *)

\* The message uid of the folder, in new/ or in cur/.
StoredAs(fs, mailbox, folder, uid) ==
    {f \in Visible(fs) : f.dir = PathOf(mailbox, folder) /\ f.key = uid}

\* This step is the copy of a CopyMessage call of goroutine p.
CopyMade(p) ==
    /\ procs[p].pc = "idle"
    /\ procs'[p].op = "CopyMessage"
    /\ \/ procs'[p].pc = "copied"
       \/ procs'[p].pc = "ret" /\ procs'[p].ret = Nil

\* This step is the return of a CopyMessage call of goroutine p with nil.
CopyReturned(p) ==
    /\ procs[p].pc # "ret"
    /\ procs'[p].op = "CopyMessage"
    /\ procs'[p].pc = "ret"
    /\ procs'[p].ret = Nil

\* The step added one file, in the destination of q, with the bytes of the
\* source of q, and left every other file as it was.
OneCopyAdded(q, before, after) ==
    /\ before \subseteq after
    /\ Cardinality(after \ before) = 1
    /\ \A c \in after \ before :
           /\ c.dir = PathOf(q.mb, q.dest)
           /\ \E s \in StoredAs(before, q.mb, q.folder, q.arg) :
                  c.data = s.data

\* The uid q returned is, after a listing of the destination, retrieved
\* from it with the bytes of the source.
CopyRetrievable(q) ==
    /\ RetrieveAfterListInFolder(q.inst, q.mb, q.dest, q.uid).err = Nil
    /\ RetrieveAfterListInFolder(q.inst, q.mb, q.dest, q.uid).data = q.data

\* C21: the step of CopyMessage that makes the copy adds exactly one file,
\* in the destination, with the bytes of the source message, and changes no
\* other file, the source in new/ or in cur/ included; and when CopyMessage
\* returns nil, the returned uid is a message of the destination that a
\* listing followed by a retrieval gives back with the bytes of the source.
C21_CopyMessage ==
    [][\A p \in CopyProcs :
          /\ CopyMade(p) => OneCopyAdded(procs'[p], files, files')
          /\ CopyReturned(p) => (CopyRetrievable(procs[p]))'
      ]_vars

\* The same for calls during which nothing else was linked into new/ of the
\* destination.
C21_CopyMessageAlone ==
    [][\A p \in CopyProcs :
          /\ CopyMade(p) => OneCopyAdded(procs'[p], files, files')
          /\ (/\ CopyReturned(p)
              /\ procs[p].pc = "copied" =>
                     maildirNewKeys(files, procs[p].dir) \ procs[p].taken
                         = {procs[p].key})
                 => (CopyRetrievable(procs[p]))'
      ]_vars

\* This step is a CopyMessage call of goroutine p failing with
\* ErrMessageNotFound.
CopyNotFound(p) ==
    /\ procs[p].pc = "idle"
    /\ procs'[p].op = "CopyMessage"
    /\ procs'[p].pc = "ret"
    /\ procs'[p].ret = ErrMessageNotFound

\* C40: a CopyMessage that fails with ErrMessageNotFound leaves the disk as
\* it was: no file and no directory is added, the destination folder
\* included.
C40_NotFoundChangesNothing ==
    [][\A p \in CopyProcs :
          CopyNotFound(p) => (files' = files /\ maildirs' = maildirs)]_vars

\* A CopyMessage that fails with ErrMessageNotFound adds and changes no
\* message file.
C40_NotFoundKeepsFiles ==
    [][\A p \in CopyProcs : CopyNotFound(p) => files' = files]_vars

-----------------------------------------------------------------------------
(* Claims checked under SpecFlags.                                          *)

\* After the step, uid of the folder is listed, and retrieved with bytes d.
StillIdentifies(i, mailbox, folder, uid, d) ==
    /\ uid \in (ListedInFolder(i, mailbox, folder))'
    /\ (RetrieveAfterListInFolder(i, mailbox, folder, uid))'.err = Nil
    /\ (RetrieveAfterListInFolder(i, mailbox, folder, uid))'.data = d

\* The name the step leaves folder f under: g when the step renamed f to g,
\* f itself otherwise.
NameAfter(mailbox, f) ==
    IF \E g \in ReadFolders : Renamed(mailbox, f, g)
    THEN CHOOSE g \in ReadFolders : Renamed(mailbox, f, g)
    ELSE f

\* C25: for every message stored in a folder, after any step (a listing that
\* moves it from new/ to cur/, a SetFlagsInFolder that replaces its flags, a
\* RenameFolder of its folder, or any other) the same uid is listed and
\* retrieves the same bytes, in the same folder, or, when the step renamed
\* the folder, in the folder of the new name while the old name is no longer
\* a folder; and no folder holds two messages with one uid.
C25_UidStable ==
    [][\A i \in FolderInstances, m \in OwnerIds, f \in ReadFolders :
          \A s \in {x \in Visible(files) : x.dir = PathOf(m, f)} :
              /\ Cardinality(StoredAs(files, m, f, s.key)) = 1
              /\ \A g \in {NameAfter(m, f)} :
                     /\ StillIdentifies(i, m, g, s.key, s.data)
                     /\ g # f => (ListInFolder(i, m, f))'.res.err
                                     = ErrFolderNotFound
      ]_vars

\* A message of folder g, renamed from f, is in cur/ with flags set.
C25_Witness ==
    \E s \in Visible(files) :
        /\ s.dir = PathOf(IdADom, FolderG)
        /\ s.sub = "cur"
        /\ s.flags # {}
        /\ ~HasMaildir(maildirs, PathOf(IdADom, FolderF))

\* The folder is on disk: its directory holds a cur/.
FolderOnDisk(mailbox, folder) ==
    /\ folderPath(mailbox, folder).err = Nil
    /\ HasMaildir(maildirs, folderPath(mailbox, folder).path)

\* C38: whenever a folder of a mailbox is on disk, ListFolders of the
\* mailbox succeeds and names the folder, whichever operation made it.
C38_FolderListed ==
    \A m \in OwnerIds, f \in FolderNames :
        FolderOnDisk(m, f) =>
            /\ ListFolders(m).err = Nil
            /\ f \in ListFolders(m).folders

\* Whenever the mailbox itself is an initialized maildir, its folders on
\* disk are listed.
C38_ListedWhenMailboxExists ==
    \A m \in OwnerIds, f \in FolderNames :
        (FolderOnDisk(m, f) /\ HasMaildir(maildirs, mailboxPath(m).path)) =>
            /\ ListFolders(m).err = Nil
            /\ f \in ListFolders(m).folders

\* The step on which an AppendToFolder that has stored its message returns.
AppendReturns(p) == procs[p].pc = "append" /\ procs'[p].pc = "ret"

\* C35: an AppendToFolder that has stored its message does not return
\* message-not-found, and when it returns without error it returns the key
\* of the message it stored and has changed no other message, whatever
\* deliveries and listings ran on the folder during the call.
C35_AppendOwnMessage ==
    [][\A p \in AppendProcs :
          AppendReturns(p) =>
              /\ procs'[p].ret # ErrMessageNotFound
              /\ procs'[p].ret = Nil =>
                    /\ procs'[p].uid = procs[p].key
                    /\ \A f \in files : f.key # procs[p].key => f \in files'
      ]_vars

-----------------------------------------------------------------------------
(* Claims checked under SpecName.                                           *)

\* The ASCII letters, the digits, hyphen and underscore.
TokenChars ==
    {"a", "b", "c", "d", "e", "f", "g", "h", "i", "j", "k", "l", "m", "n",
     "o", "p", "q", "r", "s", "t", "u", "v", "w", "x", "y", "z",
     "A", "B", "C", "D", "E", "F", "G", "H", "I", "J", "K", "L", "M", "N",
     "O", "P", "Q", "R", "S", "T", "U", "V", "W", "X", "Y", "Z",
     "0", "1", "2", "3", "4", "5", "6", "7", "8", "9", "-", "_"}

\* The name is new, cur or tmp in some letter case.
IsReserved(name) ==
    /\ Len(name) = 3
    /\ \E w \in {<<"nN", "eE", "wW">>, <<"cC", "uU", "rR">>,
                 <<"tT", "mM", "pP">>} :
           \A i \in 1..3 : \E l \in {"n", "e", "w", "c", "u", "r", "t", "m", "p"},
                              u \in {"N", "E", "W", "C", "U", "R", "T", "M", "P"} :
               /\ w[i] = l \o u
               /\ name[i] \in {l, u}

\* The policy as the claim words it.
Acceptable(name) ==
    /\ Len(name) >= 1
    /\ Len(name) <= 255
    /\ \A i \in 1..Len(name) : name[i] \in TokenChars
    /\ ~IsReserved(name)

\* C19: once validateFolderName has answered for a name, the answer is nil
\* exactly when the name has 1 to 255 characters, all of them ASCII letters,
\* digits, hyphen or underscore, and is not new, cur or tmp in any letter
\* case; for every other name the answer is ErrInvalidFolderName.
C19_NamePolicy ==
    pout.kind = "name" =>
        /\ Acceptable(pin) => pout.err = Nil
        /\ ~Acceptable(pin) => pout.err = ErrInvalidFolderName

C19_Witness ==
    /\ pout.kind = "name"
    /\ Len(pin) = 255
    /\ pout.err = Nil

-----------------------------------------------------------------------------
(* Claims checked under SpecAgent *)

\* The outcome o of a delivery is the no-recipients error with the disk and
\* the file names as they were.
RefusedNoRecipients(o) ==
    /\ o.err = ErrNoRecipients
    /\ o.files = files
    /\ o.maildirs = maildirs
    /\ o.nextKey = nextKey

\* C13: in every state, a delivery with an empty recipient list fails with
\* ErrNoRecipients and writes nothing, made on the store and made through
\* the EncryptingDeliveryAgent, whatever the key provider answers.
C13_NoRecipients ==
    \A d \in Msgs :
        /\ RefusedNoRecipients(Deliver(<<>>, d))
        /\ \A kp \in KeyProviders :
              RefusedNoRecipients(EncryptingDeliver(<<>>, d, kp))

-----------------------------------------------------------------------------
(* Claims checked under SpecPath *)

\* path lies below base: base, a separator, and more.
StrictlyBelow(path, base) ==
    /\ Len(path) > Len(base) + 1
    /\ SubSeq(path, 1, Len(base)) = base
    /\ path[Len(base) + 1] = "/"

\* C8 as stated: a call of mailboxPath or folderPath, whatever the
\* template, the subdirectory, the mailbox identifier and the folder name,
\* either fails or returns a cleaned path strictly below the cleaned base
\* directory: not the base directory, not a sibling whose name starts with
\* the base's.
C8_StrictDescendant ==
    pout.kind # "none" =>
        \/ pout.err \in {ErrPathTraversal, ErrInvalidFolderName}
        \/ /\ pout.err = Nil
           /\ pout.path = Clean(pout.path)
           /\ StrictlyBelow(pout.path, Clean(BasePath))

-----------------------------------------------------------------------------
(* Claims checked under SpecHandoff.                                        *)

\* The last call of the agent, and the recipients it named.
LastCall == pout.last[1]
Called == pout.kind = "log" /\ pout.last # <<>>
Named(recipients) == {recipients[k] : k \in 1..Len(recipients)}

\* The deliveries of the call that name the recipient.
HandedFor(r) ==
    {k \in 1..Len(LastCall.calls) : r \in Named(LastCall.calls[k].Recipients)}

\* HasEncryption returned true and GetPublicKey returned a key, no error.
KeyFound(r) ==
    /\ extractUsername(r) \in DOMAIN pin.kp
    /\ pin.kp[extractUsername(r)] \in {"key", "shortKey"}

\* The delivery carries the message as it came, with no encryption metadata;
\* or other bytes, with the metadata set.
AsPlaintext(c) == c.Encryption = NoEncryption /\ c.message = LastCall.message
AsCiphertext(c) == c.Encryption = Encrypted /\ c.message # LastCall.message

HandedOnce(r) ==
    /\ Cardinality(HandedFor(r)) = 1
    /\ \A k \in HandedFor(r) :
          IF KeyFound(r) THEN AsCiphertext(LastCall.calls[k])
          ELSE AsPlaintext(LastCall.calls[k])

\* C26: after a call of EncryptingDeliveryAgent.Deliver every recipient of
\* the envelope has been handed to the underlying agent in exactly one
\* delivery: as ciphertext with the encryption metadata set if HasEncryption
\* returned true and GetPublicKey returned a key, as the plaintext with no
\* metadata in every other case, lookup errors included.
C26_HandedOnce ==
    Called => \A r \in Named(LastCall.Recipients) : HandedOnce(r)

\* C26 in the calls that returned nil: there every recipient was handed over
\* exactly once, on the side its lookups put it.
C26_HandedOnceReturningNil ==
    (Called /\ LastCall.err = Nil) =>
        \A r \in Named(LastCall.Recipients) : HandedOnce(r)

\* The recipient's own delivery or encryption failed: the delivery of the
\* plaintext group it is in, the encryption for it, or the delivery of its
\* ciphertext.
FailedFor(r) ==
    IF KeyFound(r)
    THEN \/ pin.kp[extractUsername(r)] = "shortKey"
         \/ r \in LastCall.fails.enc
    ELSE LastCall.fails.plain

\* C27: in a call of EncryptingDeliveryAgent.Deliver every recipient whose
\* own delivery and encryption did not fail is handed to the underlying
\* agent, whatever failed for the others, and the call returns an error
\* exactly when every recipient failed.
C27_FailuresAbsorbed ==
    Called =>
        /\ \A r \in Named(LastCall.Recipients) :
              ~FailedFor(r) => HandedFor(r) # {}
        /\ LastCall.err # Nil <=>
              \A r \in Named(LastCall.Recipients) : FailedFor(r)

\* What the call does instead: it returns an error exactly when some
\* recipient failed.
C27_FailsOnAnyFailure ==
    Called =>
        (LastCall.err # Nil <=>
            \E r \in Named(LastCall.Recipients) : FailedFor(r))

\* The encrypted deliveries of the whole run, and the ephemeral public key
\* and the nonce at the head of a body.
EncryptedCalls ==
    {k \in 1..Len(pout.calls) : pout.calls[k].Encryption = Encrypted}
EphemeralOf(body) == SubSeq(body, 1, PublicKeySize)
NonceOf(body) == SubSeq(body, PublicKeySize + 1, PublicKeySize + NonceSize)

\* The body opens with the private key of the one recipient named.
SealedFor(c) ==
    /\ Len(c.Recipients) = 1
    /\ DecryptMessage(c.message,
           UserPrivateKey(extractUsername(c.Recipients[1]))).err = Nil
    /\ DecryptMessage(c.message,
           UserPrivateKey(extractUsername(c.Recipients[1]))).data \in Msgs

\* C28: every encrypted delivery handed to the underlying agent names one
\* recipient only, its body is an encryption for that recipient, and its
\* ephemeral public key and its nonce are those of no other encrypted
\* delivery of the run, to whatever recipient and of whatever message.
C28_OwnKeyAndNonce ==
    pout.kind = "log" =>
        /\ \A k \in EncryptedCalls : SealedFor(pout.calls[k])
        /\ \A j, k \in EncryptedCalls :
              j # k =>
                /\ EphemeralOf(pout.calls[j].message)
                     # EphemeralOf(pout.calls[k].message)
                /\ NonceOf(pout.calls[j].message)
                     # NonceOf(pout.calls[k].message)

\* The same message was encrypted twice for the same recipient, and once
\* more for another in the call of one of the two.
C28_Witness ==
    /\ pout.kind = "log"
    /\ \E j, k \in EncryptedCalls :
          /\ j # k
          /\ pout.calls[j].Recipients = pout.calls[k].Recipients
          /\ DecryptMessage(pout.calls[j].message,
                 UserPrivateKey(extractUsername(pout.calls[j].Recipients[1])))
               = DecryptMessage(pout.calls[k].message,
                 UserPrivateKey(extractUsername(pout.calls[k].Recipients[1])))
    /\ \E j, k \in EncryptedCalls :
          pout.calls[j].Recipients # pout.calls[k].Recipients

\* The user whose mailbox the store delivers the recipient's message to.
MailboxUser(r) == extractUsername(ParseRecipient(r).Address)

\* The user has encryption enabled: the key provider holds a key for it.
EncryptionEnabled(u) == u \in DOMAIN pin.kp /\ pin.kp[u] = "key"

\* C36: every delivery handed to the underlying agent for a recipient whose
\* mailbox belongs to a user with encryption enabled carries ciphertext and
\* the encryption metadata, also when the recipient address has a
\* +extension.
C36_NoPlaintextForEncryptedUser ==
    Called =>
        \A k \in 1..Len(LastCall.calls) :
            \A r \in Named(LastCall.calls[k].Recipients) :
                EncryptionEnabled(MailboxUser(r)) =>
                    AsCiphertext(LastCall.calls[k])

\* The same for the recipient addresses without a +extension.
C36_WithoutExtension ==
    Called =>
        \A k \in 1..Len(LastCall.calls) :
            \A r \in Named(LastCall.calls[k].Recipients) :
                (EncryptionEnabled(MailboxUser(r))
                   /\ ParseRecipient(r).Extension = <<>>) =>
                    AsCiphertext(LastCall.calls[k])

-----------------------------------------------------------------------------
(* Claims checked under SpecCrypto.                                         *)

\* DecryptMessage has been called, on the envelope as encryptMessage made it
\* or on one changed since.
Opened == pout.kind = "opened"
OpenedIntact == Opened /\ ~pout.modified

\* The private key is the one of the user the message was encrypted for.
Matching == pout.privateKey = UserPrivateKey(pin.user)

\* C29: DecryptMessage of what encryptMessage made of a message for a public
\* key returns the message itself, with no error, when it is called with the
\* private key of that public key, and returns an error when it is called
\* with any other private key.
C29_RoundTrip ==
    OpenedIntact =>
        IF Matching THEN pout.err = Nil /\ pout.data = pin.message
        ELSE pout.err # Nil

\* The round trip of a message of two bytes.
C29_Witness ==
    /\ OpenedIntact
    /\ Matching
    /\ pin.message = MsgOne
    /\ pout.err = Nil
    /\ pout.data = MsgOne

\* The cases in which DecryptMessage has to refuse the envelope.
TooShort == Len(pout.envelope) < PublicKeySize + NonceSize + BoxOverhead
WrongKeySize == Len(pout.privateKey) # PublicKeySize
Refusable == TooShort \/ WrongKeySize \/ pout.modified \/ ~Matching

\* C30: called on an envelope shorter than 32+24+16 bytes, with a private key
\* that is not 32 bytes long, on an envelope of which a byte was changed or
\* the end cut off, or with a private key that does not match, DecryptMessage
\* returns an error and not one byte of output.
C30_NoPartialPlaintext ==
    (Opened /\ Refusable) => (pout.err # Nil /\ pout.data = <<>>)

\* A changed byte of the masked message of a non-empty message, under the
\* matching key: the one case where bytes could have been unmasked.
C30_Witness ==
    /\ Opened
    /\ Matching
    /\ pout.modified
    /\ pin.message = MsgOne
    /\ Len(pout.envelope) = PublicKeySize + NonceSize + BoxOverhead + 2
    /\ pout.envelope[Len(pout.envelope)] # BoxMask(MsgOne[2])
    /\ pout.err # Nil

\* The ephemeral private key of the encryption, which encryptMessage drops
\* when it returns.
EphemeralPrivate == Drawn(pin.draw).priv

\* C31: the message of an envelope made before stays closed to whoever later
\* holds the long-term private key of the user it was encrypted for, and the
\* envelope as stored, but not the ephemeral private key: DecryptMessage on
\* these two does not give back the message.
C31_ForwardSecrecy ==
    (OpenedIntact /\ Matching /\ pin.message # <<>>) =>
        pout.data # pin.message

\* What does hold: no byte of the envelope is a byte of the ephemeral
\* private key; the key is not stored.
C31_EphemeralNotStored ==
    (pout.kind = "sealed" /\ ~pout.modified) =>
        \A k \in 1..Len(pout.envelope) :
            k # PublicKeySize + NonceSize + 1 =>
                \A j \in 1..PublicKeySize :
                    pout.envelope[k] # EphemeralPrivate[j]

-----------------------------------------------------------------------------
(* Claims checked under SpecUid.                                            *)

\* The arguments UIDValidity has been called with.
UidCalled == {a \in UidArgs : pout.last[a] # <<>>}

\* C32: a token UIDValidity returns is never zero, and every call with the
\* same mailbox and folder name returns what the first such call returned,
\* whatever folders were created, renamed or deleted in between.
C32_UidValidityStable ==
    pout.kind = "uid" =>
        \A a \in UidCalled :
            /\ pout.last[a][1].err = Nil => pout.last[a][1].v # <<0, 0>>
            /\ pout.last[a][1] = pout.first[a][1]

\* The name hashing to 0 has been asked for, and the folder f was asked for
\* again after the folders of the mailbox had changed.
C32_Witness ==
    /\ pout.kind = "uid"
    /\ <<IdADom, FolderZeroSum>> \in UidCalled
    /\ pout.last[<<IdADom, FolderZeroSum>>][1] = [v |-> <<0, 1>>, err |-> Nil]
    /\ <<IdADom, FolderF>> \in pout.again
    /\ pout.last[<<IdADom, FolderF>>][1].v = <<58124, 10137>>

-----------------------------------------------------------------------------
(* Claims checked under SpecUidPaths.                                       *)

\* The path is the base directory or lies under it.
InsideBase(path) == UnderBase(path, Clean(BasePath))

\* C33: every path an operation reads, creates, renames or removes is the
\* base directory or lies under it, whatever mailbox, folder name and
\* message UID the caller gave.
C33_NothingOutsideBase ==
    pout.kind = "touched" => \A c \in pout.touched : InsideBase(c.path)

\* With a UID as the deliveries make them, the same operations stay inside
\* the base directory.
C33_InsideWithStoredUid ==
    (pout.kind = "touched" /\ pin.uid = UidKey) =>
        \A c \in pout.touched : InsideBase(c.path)

-----------------------------------------------------------------------------
(* Claims checked under SpecAlias.                                          *)

\* The two identifiers resolve to the same directory.
SameStorage(m, n) ==
    /\ mailboxPath(m).err = Nil
    /\ mailboxPath(n).err = Nil
    /\ mailboxPath(m).path = mailboxPath(n).path

\* C37: a message an instance has soft-deleted under one identifier of a
\* mailbox is not reported by its List and not returned by its Retrieve
\* under any identifier that resolves to the same directory.
C37_DeletionFollowsMessage ==
    \A i \in Instances, m \in AliasIds, n \in AliasIds :
        SameStorage(m, n) =>
            \A u \in Marked(i, m) :
                /\ u \notin ListedUIDs(i, n)
                /\ Retrieve(i, n, u).err # Nil

\* Under the identifier the Delete was given, the message is hidden.
C37_SameIdentifier ==
    \A i \in Instances, m \in AliasIds :
        \A u \in Marked(i, m) :
            /\ u \notin ListedUIDs(i, m)
            /\ Retrieve(i, m, u).err # Nil

-----------------------------------------------------------------------------
(* Claims checked under SpecInbox.                                          *)

\* A message stored by an AppendToFolder with INBOX that has returned.
InboxAppended(m) ==
    \E f \in Visible(files) : f.dir = mailboxPath(m).path

\* C39: once AppendToFolder with the folder name INBOX has stored a message,
\* ListInFolder with INBOX reports what List of the mailbox reports, and a
\* message soft-deleted by DeleteInFolder with INBOX is not reported by
\* either.
C39_InboxIsTheMailbox ==
    \A i \in FolderInstances, m \in OwnerIds :
        InboxAppended(m) =>
            /\ ListInFolder(i, m, FolderInbox).res = List(i, m).res
            /\ \A u \in Marked(i, folderDeletionKey(m, FolderInbox)) :
                  u \notin ListedUIDs(i, m)

\* AppendToFolder with INBOX stores into the mailbox itself: List reports
\* the message.
C39_AppendReachesInbox ==
    [][\A p \in AppendProcs :
          (AppendReturns(p) /\ procs'[p].ret = Nil) =>
              \A m \in OwnerIds, i \in FolderInstances, u \in {procs'[p].uid} :
                  (u \in ListedUIDs(i, m))']_vars

=============================================================================
